---- MODULE Spec2Model ----
(***************************************************************************)
(* deadman-switch: heartbeat store, deadline checker, notifier, ping       *)
(* handler, notification queue and the etcd-backed coordination client.    *)
(*                                                                         *)
(* Time is counted in ticks; TicksPerSecond ticks make one second, so that *)
(* the sub-second part of a timestamp is visible to the model.             *)
(***************************************************************************)
EXTENDS Integers, Sequences, FiniteSets, TLC

VARIABLES
    now,            \* wall clock, in ticks
    backend,        \* cfg.Storage.Type: "memory" or "etcd"
    services,       \* the stored service configs (s.cfg.Services / <prefix>/services/)
    adminStatus,    \* status of the last answer of the config API (0: none yet)
    mem,            \* memoryStorage: the calls in progress, the backing array of
                    \* cfg.Services beyond its length, the goroutine of GetServiceConfigs
    heartbeats,     \* store: id -> time of the last heartbeat
    active,         \* store: id -> alarm active since
    lastMessage,    \* store: id -> last message send timestamp
    items,          \* queue: key -> NotificationTask (<queue-prefix>/items/<ts>)
    enqueued,       \* queue: number of Enqueue calls made so far
    outbound,       \* number of outbound notification calls made (webhook or slack)
    ckPc,           \* checker: position in checkDeadlines / checkDeadlineOfService / SendAlerts
    ckChan,         \* checker: configs still to be received from the config channel
    ckSvc,          \* checker: the config being checked (<<>> or <<svc>>)
    ckIdx,          \* checker: index of the next alert notification in SendAlerts
    passes,         \* number of checker passes started
    hPc,            \* ping handler h: position in handlePing / updateLastHeartbeat
    hSvc,           \* ping handler h: the config loaded by handlePing (<<>> or <<svc>>)
    hIdx,           \* ping handler h: index of the next recovery notification
    pings,          \* number of ping requests received
    pingSinceCheck, \* history: id -> a heartbeat was written since the checker last observed id
    recoveryCalls,  \* history: id -> SendRecoveryNotifications calls since the alarm was created
    hWrote,         \* history: handler h has written the heartbeat in the request it serves
    hFound,         \* history: handler h found an alarm in the request it serves
    hRecov,         \* history: SendRecoveryNotifications calls of h in the request it serves
    prevAlertAt,    \* history: debounced id -> clock reading at the last lastMessage update by SendAlerts
    prevRecoveryAt, \* history: debounced id -> clock reading at the last lastMessage update by SendRecoveryNotifications
    realPingAt,     \* history: id -> clock reading when the last heartbeat was written
    passLog,        \* history: <<id, index>> of every alert emitted in the running pass
    passOverdue,    \* history: ids the running pass found overdue
    passChecked,    \* history: the configs checkDeadlineOfService was called with in the running pass
    watchBuf,       \* queue: node -> first event delivered to the node's open watch on items/
    revision,       \* etcd: revision of the last write of a coordination key
    lockKey,        \* etcd: node -> create revision of <queue lock>/<lease of node>, 0 when absent
    myRev,          \* consumer of node: m.myRev of the Lock call in progress
    grants,         \* node -> Lock calls that returned success and whose Unlock has not run
    cancelled,      \* node -> unlock goroutines whose scope is cancelled and that have not run
    cPc,            \* consumer of node: position in getAndProcessNotificationsFromQueue / Dequeue
    cKv,            \* consumer of node: the key-value Dequeue holds (<<>> or <<kv>>)
    returned,       \* history: item key -> number of Dequeue calls that returned the item
    dispatched,     \* history: keys of the items whose task a consumer has dispatched
    electKey,       \* etcd: node -> create revision of <election>/<lease of node>, 0 when absent
    leaderRev,      \* node: e.leaderRev of the election of the node
    leaderErr,      \* node: the error the last IsLeader call of the node returned
    leaseAlive,     \* node -> the lease of the node's coordination session is alive
    nPc             \* checker of node: position in checkDeadlinesIfLeader

storeVars == <<heartbeats, active, lastMessage>>
checkerVars == <<ckPc, ckChan, ckSvc, ckIdx, passes>>
handlerVars == <<hPc, hSvc, hIdx, pings>>
historyVars == <<pingSinceCheck, recoveryCalls, hWrote, hFound, hRecov,
                 prevAlertAt, prevRecoveryAt, realPingAt, passLog, passOverdue, passChecked>>
queueVars == <<items, enqueued, watchBuf>>
consumerVars == <<revision, lockKey, myRev, grants, cancelled, cPc, cKv, returned,
                  dispatched>>
electionVars == <<electKey, leaderRev, leaderErr, leaseAlive, nPc>>
coordVars == <<consumerVars, electionVars>>
vars == <<now, backend, adminStatus, mem, services, storeVars, queueVars, outbound,
          checkerVars, handlerVars, historyVars, coordVars>>

(***************************************************************************)
(* Bounds of the model.                                                    *)
(***************************************************************************)
TicksPerSecond == 3
MaxTime == 3
MaxPasses == 2
MaxPings == 2

Handlers == {1, 2}

\* The goroutines that call the memory store: a ping handler, an admin handler
\* and the checker.
MemActors == {"ping", "admin", "checker"}
\* No call of the memory store in progress, no listing started.
MemIdle ==
    [busy |-> [a \in MemActors |-> <<>>], raced |-> [a \in MemActors |-> FALSE],
     calls |-> 0, fatal |-> FALSE, spare |-> <<>>, list |-> "none", snaps |-> {},
     out |-> <<>>,
     itShared |-> TRUE, itArr |-> <<>>, itLen |-> 0, itIdx |-> 0]

(***************************************************************************)
(* Maps as Go maps / key-value prefixes: partial functions.                *)
(***************************************************************************)
MapPut(m, k, v) == [x \in DOMAIN m \cup {k} |-> IF x = k THEN v ELSE m[x]]
MapDelete(m, k) == [x \in DOMAIN m \ {k} |-> m[x]]
EmptyMap == [x \in {} |-> 0]

(***************************************************************************)
(* Timestamps.  time.Time{} lies far before every clock reading.           *)
(* t.Format(time.RFC3339) keeps whole seconds only; time.Parse reads them  *)
(* back.                                                                   *)
(***************************************************************************)
ZeroTime == 0 - 1000 * TicksPerSecond
FormatRFC3339(t) == t \div TicksPerSecond
ParseRFC3339(str) == str * TicksPerSecond

\* What a Get returns after a Set of t: the memory store keeps the time.Time,
\* the etcd store keeps its RFC3339 string.
StoredTime(t) == IF backend = "etcd" THEN ParseRFC3339(FormatRFC3339(t)) ELSE t

SetLastHeartbeat(key, t) == MapPut(heartbeats, key, StoredTime(t))
GetLastHeartbeatAtNow(key) ==
    IF key \in DOMAIN heartbeats THEN [t |-> heartbeats[key], err |-> "nil"]
                                 ELSE [t |-> now, err |-> "not found"]
GetLastHeartbeat(key) ==
    IF key \in DOMAIN heartbeats THEN [t |-> heartbeats[key], err |-> "nil"]
                                 ELSE [t |-> ZeroTime, err |-> "not found"]
SetAlarmActiveSince(key, t) == MapPut(active, key, StoredTime(t))
GetAlarmActiveSince(key) ==
    IF key \in DOMAIN active THEN [t |-> active[key], err |-> "nil"]
                             ELSE [t |-> ZeroTime, err |-> "not found"]
ClearAlarm(key) == MapDelete(active, key)
SetLastMessageSendTimestamp(key, t) == MapPut(lastMessage, key, StoredTime(t))
GetLastMessageSendTimestamp(key) ==
    IF key \in DOMAIN lastMessage THEN [t |-> lastMessage[key], err |-> "nil"]
                                  ELSE [t |-> ZeroTime, err |-> "not found"]

ConfigIndexesAny(id) == 1..Len(services)
\* GetServiceConfig: the first stored config with this id.
ConfigIndexes(id) == {i \in 1..Len(services) : services[i].id = id}
HasServiceConfig(id) == ConfigIndexes(id) # {}
GetServiceConfig(id) ==
    services[CHOOSE i \in ConfigIndexes(id) : \A j \in ConfigIndexes(id) : i <= j]

(***************************************************************************)
(* Service configs of the model: one service, timeout two ticks, two alert *)
(* notifications and one recovery notification; debounce 0 or two ticks.   *)
(***************************************************************************)
ServiceIds == {"svc-1"}
\* The ids of the specifications that store more than one config.
ConfigIds == {"svc-1", "svc-2"}
ServiceConfig(id, token, timeout, debounce) ==
    [id |-> id, token |-> token, timeout |-> timeout, debounce |-> debounce,
     alertNotifications |-> <<"webhook", "slack">>,
     recoveryNotifications |-> <<"webhook">>]
Debounces == {0, 2}
\* Timeouts: two ticks, or longer than any run of the model.
Timeouts == {2, 1000}
\* Tokens a config carries ("" is no token) and tokens a request carries in its
\* query string ("" is no token parameter).
Tokens == {"", "abc"}
PingTokens == {"", "abc", "xyz"}

(***************************************************************************)
(* Queue (etcdQueue) and notifier emission.                                *)
(***************************************************************************)
\* main: a queue client exists only with the etcd backend.
QueueWired == backend = "etcd"

\* Enqueue writes items/<time.Now() in RFC3339Nano>.  The nanosecond clock
\* readings of successive Enqueue calls increase: the key of the k-th call is k.
EnqueueKey == enqueued + 1
Enqueue(its, task) == MapPut(its, EnqueueKey, task)

Nodes == {"A", "B"}

\* A watch on items/ delivers the events that follow its creation; Dequeue reads
\* the first one only.
Notify(buf, event) ==
    [n \in Nodes |-> IF cPc[n] = "watching" /\ buf[n] = <<>> THEN <<event>> ELSE buf[n]]

\* notificationWrapper{Service, Notification, IsRecoveryMessage}
NotificationTaskAsAlert(svc, notification, isRecovery) ==
    [service |-> svc, notification |-> notification, isRecovery |-> FALSE]
NotificationTask(svc, notification, isRecovery) ==
    [service |-> svc, notification |-> notification, isRecovery |-> isRecovery]

EmitNothing(svc, notification, isRecovery) == UNCHANGED <<queueVars, outbound>>
\* One notification of SendAlerts / SendRecoveryNotifications: enqueued when a
\* queue is wired, dispatched by an outbound call otherwise.
Emit(svc, notification, isRecovery) ==
    IF QueueWired
    THEN /\ items' = Enqueue(items, NotificationTask(svc, notification, isRecovery))
         /\ enqueued' = enqueued + 1
         /\ watchBuf' = Notify(watchBuf, [type |-> "PUT", key |-> EnqueueKey,
                    value |-> <<NotificationTask(svc, notification, isRecovery)>>])
         /\ UNCHANGED outbound
    ELSE /\ outbound' = outbound + 1
         /\ UNCHANGED queueVars

(***************************************************************************)
(* Checker: one pass of checkDeadlines on the node that checks deadlines.  *)
(***************************************************************************)
\* checkDeadlines: GetServiceConfigs opens the channel of stored configs.
CheckDeadlines ==
    /\ ckPc = "idle"
    /\ passes < MaxPasses
    /\ passes' = passes + 1
    /\ ckChan' = services
    /\ ckPc' = "next"
    /\ UNCHANGED coordVars
    /\ UNCHANGED <<now, backend, adminStatus, mem, services, storeVars, queueVars, outbound, ckSvc, ckIdx,
                   handlerVars, historyVars>>

\* time.Since(t) > time.Duration(svc.Timeout), t the stored heartbeat or time.Time{}.
TimeSince(t) == now - t
Overdue(svc) == TimeSince(GetLastHeartbeat(svc.id).t) > svc.timeout

\* checkDeadlineOfService, up to the branch on the deadline.
CheckDeadlineOfService ==
    /\ ckPc = "next"
    /\ ckChan # <<>>
    /\ LET svc == Head(ckChan) IN
         /\ ckChan' = Tail(ckChan)
         /\ passChecked' = Append(passChecked, svc)
         /\ pingSinceCheck' = [pingSinceCheck EXCEPT ![svc.id] = FALSE]
         /\ IF Overdue(svc)
            THEN /\ ckPc' = "getAlarm"
                 /\ ckSvc' = <<svc>>
                 /\ passOverdue' = passOverdue \cup {svc.id}
            ELSE /\ ckPc' = "next"
                 /\ ckSvc' = <<>>
                 /\ UNCHANGED passOverdue
    /\ UNCHANGED coordVars
    /\ UNCHANGED <<now, backend, adminStatus, mem, services, storeVars, queueVars, outbound, ckIdx, passes,
                   handlerVars, recoveryCalls, hWrote, hFound, hRecov,
                   prevAlertAt, prevRecoveryAt, realPingAt, passLog>>

AlarmNotFoundAlways(id) == TRUE
\* err == storage.ErrNotFound after GetAlarmActiveSince.
AlarmNotFound(id) == GetAlarmActiveSince(id).err = "not found"

CheckerGetAlarm ==
    /\ ckPc = "getAlarm"
    /\ ckPc' = IF AlarmNotFound(ckSvc[1].id) THEN "setAlarm" ELSE "sendAlerts"
    /\ UNCHANGED coordVars
    /\ UNCHANGED <<now, backend, adminStatus, mem, services, storeVars, queueVars, outbound, ckChan, ckSvc,
                   ckIdx, passes, handlerVars, historyVars>>

CheckerSetAlarm ==
    /\ ckPc = "setAlarm"
    /\ active' = SetAlarmActiveSince(ckSvc[1].id, now)
    /\ recoveryCalls' = [recoveryCalls EXCEPT ![ckSvc[1].id] = 0]
    /\ ckPc' = "sendAlerts"
    /\ UNCHANGED coordVars
    /\ UNCHANGED <<now, backend, adminStatus, mem, services, heartbeats, lastMessage, queueVars, outbound,
                   ckChan, ckSvc, ckIdx, passes, handlerVars, pingSinceCheck,
                   hWrote, hFound, hRecov, prevAlertAt, prevRecoveryAt, realPingAt, passLog, passOverdue,
                   passChecked>>

\* SendAlerts: the debounce test.
Debounced(svc) ==
    /\ svc.debounce > 0
    /\ GetLastMessageSendTimestamp(svc.id).err = "nil"
    /\ now - svc.debounce < GetLastMessageSendTimestamp(svc.id).t

SendAlertsBegin ==
    /\ ckPc = "sendAlerts"
    /\ IF Debounced(ckSvc[1])
       THEN /\ ckPc' = "next"
            /\ ckSvc' = <<>>
            /\ UNCHANGED ckIdx
       ELSE /\ ckPc' = "emit"
            /\ ckIdx' = 1
            /\ UNCHANGED ckSvc
    /\ UNCHANGED coordVars
    /\ UNCHANGED <<now, backend, adminStatus, mem, services, storeVars, queueVars, outbound, ckChan, passes,
                   handlerVars, historyVars>>

SkipNotification(i) == i + 2
\* for _, notification := range ...: the index of the next notification.
NextNotification(i) == i + 1

SendAlertsEmit ==
    /\ ckPc = "emit"
    /\ ckIdx <= Len(ckSvc[1].alertNotifications)
    /\ Emit(ckSvc[1], ckSvc[1].alertNotifications[ckIdx], FALSE)
    /\ passLog' = Append(passLog, <<ckSvc[1].id, ckIdx>>)
    /\ ckIdx' = NextNotification(ckIdx)
    /\ UNCHANGED coordVars
    /\ UNCHANGED <<now, backend, adminStatus, mem, services, storeVars, ckPc, ckChan, ckSvc, passes,
                   handlerVars, pingSinceCheck, recoveryCalls, hWrote, hFound, hRecov,
                   prevAlertAt, prevRecoveryAt, realPingAt, passOverdue,
                   passChecked>>

\* lastMessage written before the list is through (not what SendAlerts does).
SendAlertsDoneEarly ==
    /\ ckPc = "emit"
    /\ lastMessage' = SetLastMessageSendTimestamp(ckSvc[1].id, now)
    /\ prevAlertAt' = IF ckSvc[1].debounce > 0
                      THEN MapPut(prevAlertAt, ckSvc[1].id, now) ELSE prevAlertAt
    /\ ckPc' = "next"
    /\ ckSvc' = <<>>
    /\ ckIdx' = 0
    /\ UNCHANGED coordVars
    /\ UNCHANGED <<now, backend, adminStatus, mem, services, heartbeats, active, queueVars, outbound, ckChan,
                   passes, handlerVars, pingSinceCheck, recoveryCalls, hWrote, hFound,
                   hRecov, prevRecoveryAt, realPingAt, passLog, passOverdue,
                   passChecked>>

SendAlertsDone ==
    /\ ckPc = "emit"
    /\ ckIdx > Len(ckSvc[1].alertNotifications)
    /\ lastMessage' = SetLastMessageSendTimestamp(ckSvc[1].id, now)
    /\ prevAlertAt' = IF ckSvc[1].debounce > 0
                      THEN MapPut(prevAlertAt, ckSvc[1].id, now) ELSE prevAlertAt
    /\ ckPc' = "next"
    /\ ckSvc' = <<>>
    /\ ckIdx' = 0
    /\ UNCHANGED coordVars
    /\ UNCHANGED <<now, backend, adminStatus, mem, services, heartbeats, active, queueVars, outbound, ckChan,
                   passes, handlerVars, pingSinceCheck, recoveryCalls, hWrote, hFound,
                   hRecov, prevRecoveryAt, realPingAt, passLog, passOverdue,
                   passChecked>>

\* checkDeadlines: the config channel is closed.
PassDone ==
    /\ ckPc = "next"
    /\ ckChan = <<>>
    /\ ckPc' = "idle"
    /\ passLog' = <<>>
    /\ passOverdue' = {}
    /\ passChecked' = <<>>
    /\ UNCHANGED coordVars
    /\ UNCHANGED <<now, backend, adminStatus, mem, services, storeVars, queueVars, outbound, ckChan, ckSvc,
                   ckIdx, passes, handlerVars, pingSinceCheck, recoveryCalls, hWrote,
                   hFound, hRecov, prevAlertAt, prevRecoveryAt, realPingAt>>

CheckerStep ==
    \/ CheckDeadlines
    \/ CheckDeadlineOfService
    \/ CheckerGetAlarm
    \/ CheckerSetAlarm
    \/ SendAlertsBegin
    \/ SendAlertsEmit
    \/ SendAlertsDone
    \/ PassDone

(***************************************************************************)
(* Ping handler: handlePing and updateLastHeartbeat.                       *)
(***************************************************************************)
PingIds == ServiceIds \cup {"stranger"}

\* A request is served by the first idle handler (handlers are interchangeable).
FirstIdle(h) == hPc[h] = "idle" /\ \A g \in Handlers : g < h => hPc[g] # "idle"

TokenIgnored(svc, token) == TRUE
\* svcConfig.Token != "" => r.URL.Query().Get("token") == svcConfig.Token
TokenAccepted(svc, token) == svc.token # "" => token = svc.token

\* The status handlePing answers with: 404 without a config, 401 on a wrong token,
\* 200 (the default of w.Write) once updateLastHeartbeat has returned.
PingStatus(id, token) ==
    IF ~HasServiceConfig(id) THEN 404
    ELSE IF ~TokenAccepted(GetServiceConfig(id), token) THEN 401
    ELSE 200

HandlePing(h, id, token) ==
    /\ FirstIdle(h)
    /\ pings < MaxPings
    /\ pings' = pings + 1
    /\ IF PingStatus(id, token) = 200
       THEN /\ hSvc' = [hSvc EXCEPT ![h] = <<GetServiceConfig(id)>>]
            /\ hPc' = [hPc EXCEPT ![h] = "setHeartbeat"]
       ELSE UNCHANGED <<hSvc, hPc>>
    /\ UNCHANGED coordVars
    /\ UNCHANGED <<now, backend, adminStatus, mem, services, storeVars, queueVars, outbound, checkerVars,
                   hIdx, historyVars>>

UpdateLastHeartbeat(h) ==
    /\ hPc[h] = "setHeartbeat"
    /\ heartbeats' = SetLastHeartbeat(hSvc[h][1].id, now)
    /\ realPingAt' = MapPut(realPingAt, hSvc[h][1].id, now)
    /\ pingSinceCheck' = [pingSinceCheck EXCEPT ![hSvc[h][1].id] = TRUE]
    /\ hWrote' = [hWrote EXCEPT ![h] = TRUE]
    /\ hPc' = [hPc EXCEPT ![h] = "getAlarm"]
    /\ UNCHANGED coordVars
    /\ UNCHANGED <<now, backend, adminStatus, mem, services, active, lastMessage, queueVars, outbound,
                   checkerVars, hSvc, hIdx, pings, recoveryCalls, hFound, hRecov,
                   prevAlertAt, prevRecoveryAt, passLog, passOverdue,
                   passChecked>>

AlarmFoundAlways(id) == TRUE
\* err == nil after GetAlarmActiveSince.
AlarmFound(id) == GetAlarmActiveSince(id).err = "nil"

HandlerGetAlarm(h) ==
    /\ hPc[h] = "getAlarm"
    /\ IF AlarmFound(hSvc[h][1].id)
       THEN /\ hPc' = [hPc EXCEPT ![h] = "clearAlarm"]
            /\ hFound' = [hFound EXCEPT ![h] = TRUE]
            /\ UNCHANGED hSvc
            /\ UNCHANGED hWrote
       ELSE /\ hPc' = [hPc EXCEPT ![h] = "idle"]
            /\ hSvc' = [hSvc EXCEPT ![h] = <<>>]
            /\ hWrote' = [hWrote EXCEPT ![h] = FALSE]
            /\ UNCHANGED hFound
    /\ UNCHANGED coordVars
    /\ UNCHANGED <<now, backend, adminStatus, mem, services, storeVars, queueVars, outbound, checkerVars,
                   hIdx, pings, pingSinceCheck, recoveryCalls, hRecov,
                   prevAlertAt, prevRecoveryAt, realPingAt, passLog, passOverdue,
                   passChecked>>

\* ClearAlarm, then the call of SendRecoveryNotifications.
HandlerClearAlarm(h) ==
    /\ hPc[h] = "clearAlarm"
    /\ active' = ClearAlarm(hSvc[h][1].id)
    /\ hRecov' = [hRecov EXCEPT ![h] = @ + 1]
    /\ recoveryCalls' = [recoveryCalls EXCEPT ![hSvc[h][1].id] = @ + 1]
    /\ hIdx' = [hIdx EXCEPT ![h] = 1]
    /\ hPc' = [hPc EXCEPT ![h] = "recover"]
    /\ UNCHANGED coordVars
    /\ UNCHANGED <<now, backend, adminStatus, mem, services, heartbeats, lastMessage, queueVars, outbound,
                   checkerVars, hSvc, pings, pingSinceCheck, hWrote, hFound,
                   prevAlertAt, prevRecoveryAt, realPingAt, passLog, passOverdue,
                   passChecked>>

SendRecoveryEmit(h) ==
    /\ hPc[h] = "recover"
    /\ hIdx[h] <= Len(hSvc[h][1].recoveryNotifications)
    /\ Emit(hSvc[h][1], hSvc[h][1].recoveryNotifications[hIdx[h]], TRUE)
    /\ hIdx' = [hIdx EXCEPT ![h] = NextNotification(@)]
    /\ UNCHANGED coordVars
    /\ UNCHANGED <<now, backend, adminStatus, mem, services, storeVars, checkerVars, hPc, hSvc, pings,
                   historyVars>>

SendRecoveryDone(h) ==
    /\ hPc[h] = "recover"
    /\ hIdx[h] > Len(hSvc[h][1].recoveryNotifications)
    /\ lastMessage' = SetLastMessageSendTimestamp(hSvc[h][1].id, now)
    /\ hPc' = [hPc EXCEPT ![h] = "idle"]
    /\ hSvc' = [hSvc EXCEPT ![h] = <<>>]
    /\ hIdx' = [hIdx EXCEPT ![h] = 0]
    /\ hWrote' = [hWrote EXCEPT ![h] = FALSE]
    /\ hFound' = [hFound EXCEPT ![h] = FALSE]
    /\ hRecov' = [hRecov EXCEPT ![h] = 0]
    /\ prevRecoveryAt' = IF hSvc[h][1].debounce > 0
                         THEN MapPut(prevRecoveryAt, hSvc[h][1].id, now) ELSE prevRecoveryAt
    /\ UNCHANGED coordVars
    /\ UNCHANGED <<now, backend, adminStatus, mem, services, heartbeats, active, queueVars, outbound,
                   checkerVars, pings, pingSinceCheck, recoveryCalls, prevAlertAt,
                   realPingAt, passLog, passOverdue,
                   passChecked>>

HandlerStep(h) ==
    \/ \E id \in PingIds, token \in PingTokens : HandlePing(h, id, token)
    \/ UpdateLastHeartbeat(h)
    \/ HandlerGetAlarm(h)
    \/ HandlerClearAlarm(h)
    \/ SendRecoveryEmit(h)
    \/ SendRecoveryDone(h)

\* The clock advances.
Tick ==
    /\ now < MaxTime
    /\ now' = now + 1
    /\ UNCHANGED coordVars
    /\ UNCHANGED <<backend, adminStatus, mem, services, storeVars, queueVars, outbound, checkerVars,
                   handlerVars, historyVars>>

(***************************************************************************)
(* Specification of the alarm state machine: one checker, the ping         *)
(* handlers, the clock.                                                    *)
(***************************************************************************)
Init ==
    /\ now = 0
    /\ backend \in {"memory", "etcd"}
    /\ adminStatus = 0
    /\ mem = MemIdle
    /\ services \in {<<ServiceConfig(id, tok, to, d)>> :
                        id \in ServiceIds, tok \in Tokens, to \in Timeouts, d \in Debounces}
    /\ heartbeats = EmptyMap
    /\ active = EmptyMap
    /\ lastMessage = EmptyMap
    /\ items = EmptyMap
    /\ enqueued = 0
    /\ outbound = 0
    /\ ckPc = "idle"
    /\ ckChan = <<>>
    /\ ckSvc = <<>>
    /\ ckIdx = 0
    /\ passes = 0
    /\ hPc = [h \in Handlers |-> "idle"]
    /\ hSvc = [h \in Handlers |-> <<>>]
    /\ hIdx = [h \in Handlers |-> 0]
    /\ pings = 0
    /\ pingSinceCheck = [id \in ServiceIds |-> FALSE]
    /\ recoveryCalls = [id \in ServiceIds |-> 0]
    /\ hWrote = [h \in Handlers |-> FALSE]
    /\ hFound = [h \in Handlers |-> FALSE]
    /\ hRecov = [h \in Handlers |-> 0]
    /\ prevAlertAt = EmptyMap
    /\ prevRecoveryAt = EmptyMap
    /\ realPingAt = EmptyMap
    /\ passLog = <<>>
    /\ passOverdue = {}
    /\ passChecked = <<>>
    /\ watchBuf = [n \in Nodes |-> <<>>]
    /\ revision = 0
    /\ lockKey = [n \in Nodes |-> 0]
    /\ myRev = [n \in Nodes |-> 0]
    /\ grants = [n \in Nodes |-> 0]
    /\ cancelled = [n \in Nodes |-> 0]
    /\ cPc = [n \in Nodes |-> "off"]
    /\ cKv = [n \in Nodes |-> <<>>]
    /\ returned = EmptyMap
    /\ dispatched = {}
    /\ electKey = [n \in Nodes |-> 0]
    /\ leaderRev = [n \in Nodes |-> 0]
    /\ leaderErr = [n \in Nodes |-> "nil"]
    /\ leaseAlive = [n \in Nodes |-> TRUE]
    /\ nPc = [n \in Nodes |-> "off"]

Next ==
    \/ Tick
    \/ CheckDeadlines
    \/ CheckDeadlineOfService
    \/ CheckerGetAlarm
    \/ CheckerSetAlarm
    \/ SendAlertsBegin
    \/ SendAlertsEmit
    \/ SendAlertsDone
    \/ PassDone
    \/ \E h \in Handlers, id \in PingIds, token \in PingTokens : HandlePing(h, id, token)
    \/ \E h \in Handlers : UpdateLastHeartbeat(h)
    \/ \E h \in Handlers : HandlerGetAlarm(h)
    \/ \E h \in Handlers : HandlerClearAlarm(h)
    \/ \E h \in Handlers : SendRecoveryEmit(h)
    \/ \E h \in Handlers : SendRecoveryDone(h)

Spec == Init /\ [][Next]_vars

(***************************************************************************)
(* The same machine at one clock reading: the service was never pinged or  *)
(* was pinged at time 0, the clock stands at any reading and does not      *)
(* advance while the steps run.                                            *)
(***************************************************************************)
InitAtInstant ==
    /\ now \in 0..MaxTime
    /\ backend \in {"memory", "etcd"}
    /\ adminStatus = 0
    /\ mem = MemIdle
    /\ services \in {<<ServiceConfig(id, tok, to, d)>> :
                        id \in ServiceIds, tok \in Tokens, to \in Timeouts, d \in Debounces}
    /\ \E pinged \in SUBSET ServiceIds :
         /\ heartbeats = [id \in pinged |-> 0]
         /\ realPingAt = [id \in pinged |-> 0]
    /\ active = EmptyMap
    /\ lastMessage = EmptyMap
    /\ items = EmptyMap
    /\ enqueued = 0
    /\ outbound = 0
    /\ ckPc = "idle"
    /\ ckChan = <<>>
    /\ ckSvc = <<>>
    /\ ckIdx = 0
    /\ passes = 0
    /\ hPc = [h \in Handlers |-> "idle"]
    /\ hSvc = [h \in Handlers |-> <<>>]
    /\ hIdx = [h \in Handlers |-> 0]
    /\ pings = 0
    /\ pingSinceCheck = [id \in ServiceIds |-> FALSE]
    /\ recoveryCalls = [id \in ServiceIds |-> 0]
    /\ hWrote = [h \in Handlers |-> FALSE]
    /\ hFound = [h \in Handlers |-> FALSE]
    /\ hRecov = [h \in Handlers |-> 0]
    /\ prevAlertAt = EmptyMap
    /\ prevRecoveryAt = EmptyMap
    /\ passLog = <<>>
    /\ passOverdue = {}
    /\ passChecked = <<>>
    /\ watchBuf = [n \in Nodes |-> <<>>]
    /\ revision = 0
    /\ lockKey = [n \in Nodes |-> 0]
    /\ myRev = [n \in Nodes |-> 0]
    /\ grants = [n \in Nodes |-> 0]
    /\ cancelled = [n \in Nodes |-> 0]
    /\ cPc = [n \in Nodes |-> "off"]
    /\ cKv = [n \in Nodes |-> <<>>]
    /\ returned = EmptyMap
    /\ dispatched = {}
    /\ electKey = [n \in Nodes |-> 0]
    /\ leaderRev = [n \in Nodes |-> 0]
    /\ leaderErr = [n \in Nodes |-> "nil"]
    /\ leaseAlive = [n \in Nodes |-> TRUE]
    /\ nPc = [n \in Nodes |-> "off"]

NextAtInstant ==
    \/ CheckDeadlines
    \/ CheckDeadlineOfService
    \/ CheckerGetAlarm
    \/ CheckerSetAlarm
    \/ SendAlertsBegin
    \/ SendAlertsEmit
    \/ SendAlertsDone
    \/ PassDone
    \/ \E h \in Handlers, id \in PingIds, token \in PingTokens : HandlePing(h, id, token)
    \/ \E h \in Handlers : UpdateLastHeartbeat(h)
    \/ \E h \in Handlers : HandlerGetAlarm(h)
    \/ \E h \in Handlers : HandlerClearAlarm(h)
    \/ \E h \in Handlers : SendRecoveryEmit(h)
    \/ \E h \in Handlers : SendRecoveryDone(h)

SpecAtInstant == InitAtInstant /\ [][NextAtInstant]_vars

(***************************************************************************)
(* Claims about the alarm state machine.                                   *)
(***************************************************************************)
ConfigOf(id) == GetServiceConfig(id)
HandlersQuiet == \A h \in Handlers : hPc[h] = "idle"
CheckerQuiet == ckPc \in {"idle", "next"}

\* C5: alarm invariant under races.  Once the ping handlers and the per-service
\* check have finished, an alarm exists only if no heartbeat was written since the
\* checker's observation of the service: alarms[s] does not exist while
\* lastHeartbeat[s] holds a heartbeat the checker has not seen overdue.
C5_AlarmInvariantUnderRaces ==
    (HandlersQuiet /\ CheckerQuiet) =>
        \A id \in DOMAIN active : ~pingSinceCheck[id]

\* C6: recovery exclusivity.  Between the creation of alarms[s] by the checker and
\* the next creation, SendRecoveryNotifications(s) is called at most once.
C6_RecoveryExclusivity ==
    \A id \in ServiceIds : recoveryCalls[id] <= 1

\* C7: debounce bound.  For a service with debounce d > 0 two successive alert
\* emissions, taken at the clock readings at which SendAlerts updates lastMessage,
\* are at least d apart; and a SendAlerts call made while now - d < lastMessage
\* emits nothing, leaves lastMessage unchanged and returns.
C7_DebounceBound ==
    [][/\ (SendAlertsDone /\ ckSvc[1].debounce > 0 /\ ckSvc[1].id \in DOMAIN prevAlertAt)
            => now - prevAlertAt[ckSvc[1].id] >= ckSvc[1].debounce
       /\ (/\ SendAlertsBegin
           /\ ckSvc[1].debounce > 0
           /\ ckSvc[1].id \in DOMAIN lastMessage
           /\ now - ckSvc[1].debounce < lastMessage[ckSvc[1].id])
            => /\ ckPc' = "next"
               /\ UNCHANGED <<lastMessage, queueVars, outbound, passLog>>]_vars

\* C8: a ping handler writes lastHeartbeat[s] before it reads alarms[s]; when the
\* read finds an alarm the handler deletes alarms[s] and calls
\* SendRecoveryNotifications exactly once; when it finds none the request ends
\* with no call of SendRecoveryNotifications and with alarms and lastMessage
\* as they were.
C8_PingClearsAlarmOnce ==
    [][\A h \in Handlers :
        /\ HandlerGetAlarm(h) =>
             /\ hWrote[h]
             /\ hSvc[h][1].id \in DOMAIN active => hPc'[h] = "clearAlarm"
             /\ hSvc[h][1].id \notin DOMAIN active =>
                  /\ hPc'[h] = "idle"
                  /\ hRecov[h] = 0
                  /\ UNCHANGED <<active, lastMessage, queueVars, outbound, recoveryCalls>>
        /\ HandlerClearAlarm(h) =>
             /\ hFound[h]
             /\ hSvc[h][1].id \notin DOMAIN active'
             /\ hRecov'[h] = 1
        /\ SendRecoveryDone(h) => hFound[h] /\ hRecov[h] = 1]_vars

\* C8 witness: a handler that found an alarm has deleted it and is in its one
\* call of SendRecoveryNotifications.
C8_Witness ==
    \E h \in Handlers :
        /\ hPc[h] = "recover"
        /\ hFound[h]
        /\ hRecov[h] = 1
        /\ hSvc[h][1].id \notin DOMAIN active
        /\ hSvc[h][1].id \in DOMAIN heartbeats

\* C9: a per-service check that finds now - lastHeartbeat[s] <= timeout does
\* nothing: no alarm set or cleared, nothing emitted or enqueued, lastMessage
\* unchanged; hence a check of a service whose last ping is less than its timeout
\* old raises no alert; and an alarm is deleted by the ping handler only, never by
\* the checker.
C9_AliveCheckDoesNothing ==
    [][/\ (CheckDeadlineOfService /\ ~Overdue(Head(ckChan))) =>
             /\ ckPc' = "next"
             /\ UNCHANGED <<storeVars, queueVars, outbound, passLog, passOverdue>>
       /\ (/\ CheckDeadlineOfService
           /\ Head(ckChan).id \in DOMAIN realPingAt
           /\ now - realPingAt[Head(ckChan).id] < Head(ckChan).timeout)
            => ckPc' = "next"
       /\ CheckerStep => DOMAIN active \subseteq DOMAIN active'
       /\ (DOMAIN active' # DOMAIN active /\ ~CheckerStep) =>
             \E h \in Handlers : HandlerClearAlarm(h)]_vars

Count(log, e) == Cardinality({i \in 1..Len(log) : log[i] = e})

\* C10: in every checker pass, a service with debounce = 0 that the pass finds
\* overdue has each of its alert notifications emitted exactly once, and a
\* service the pass did not find overdue has none emitted.
C10_EveryOverdueTickEmitsOnce ==
    [][PassDone =>
        \A i \in 1..Len(services) :
            services[i].debounce = 0 =>
                \A k \in 1..Len(services[i].alertNotifications) :
                    Count(passLog, <<services[i].id, k>>) =
                        (IF services[i].id \in passOverdue THEN 1 ELSE 0)]_vars

\* C10 witness: the second pass has found the debounce-free service overdue and
\* has emitted both of its alert notifications.
C10_Witness ==
    /\ passes = 2
    /\ ckPc = "next"
    /\ ckChan = <<>>
    /\ services[1].debounce = 0
    /\ passOverdue = {services[1].id}
    /\ passLog = <<<<services[1].id, 1>>, <<services[1].id, 2>>>>

(***************************************************************************)
(* Claims about the answers of handlePing.                                 *)
(***************************************************************************)
NoStoredConfig(id) == \A i \in 1..Len(services) : services[i].id # id
PingFrame == UNCHANGED <<storeVars, queueVars, outbound, hPc, hSvc, hIdx, recoveryCalls,
                         checkerVars>>

\* C11: a ping for a service id without a stored config is answered 404 and
\* changes nothing: no heartbeat, alarm or lastMessage record is written or
\* deleted, nothing is emitted or enqueued, no handler goes on to
\* updateLastHeartbeat.
C11_UnknownPingChangesNothing ==
    [][\A h \in Handlers, id \in PingIds, token \in PingTokens :
        (HandlePing(h, id, token) /\ NoStoredConfig(id)) =>
            (PingStatus(id, token) = 404 /\ PingFrame)]_vars

\* A request was answered and no handler is at work, the config carries no token
\* (every ping for the service is accepted) and the service has no heartbeat: the
\* request was a ping for an unknown id.
C11_Witness ==
    /\ pings = 1
    /\ HandlersQuiet
    /\ services[1].token = ""
    /\ services[1].id \notin DOMAIN heartbeats
    /\ passes = 0

\* C12: token authentication.  With a non-empty token in the stored config a ping
\* whose token is absent or different is answered 401 and changes nothing; a ping
\* with exactly the configured token, and every ping when the configured token is
\* empty, is accepted and goes on to updateLastHeartbeat.
C12_TokenAuthentication ==
    [][\A h \in Handlers, id \in ServiceIds, token \in PingTokens :
        (HandlePing(h, id, token) /\ ~NoStoredConfig(id)) =>
            /\ (ConfigOf(id).token # "" /\ token # ConfigOf(id).token) =>
                    (PingStatus(id, token) = 401 /\ PingFrame)
            /\ (ConfigOf(id).token = "" \/ token = ConfigOf(id).token) =>
                    /\ PingStatus(id, token) = 200
                    /\ hPc'[h] = "setHeartbeat"
                    /\ hSvc'[h] = <<ConfigOf(id)>>]_vars

\* A ping was rejected (the only request so far left no heartbeat and no handler
\* at work) and a second one, carrying the configured token, was accepted.
C12_Witness ==
    \E h \in Handlers :
        /\ pings = 2
        /\ hPc[h] = "setHeartbeat"
        /\ hSvc[h][1].token = "abc"
        /\ hSvc[h][1].id \notin DOMAIN heartbeats
        /\ \A g \in Handlers : g # h => hPc[g] = "idle"
        /\ passes = 0

\* C14: a service without a heartbeat record counts as last pinged at the zero
\* time: every check of it, on the first tick and on every later one until a ping
\* is accepted, finds it overdue whatever its timeout, reads the alarm, sets it
\* when it is not there and calls SendAlerts.
C14_NeverPingedIsOverdue ==
    [][/\ (CheckDeadlineOfService /\ Head(ckChan).id \notin DOMAIN heartbeats) =>
             /\ ckPc' = "getAlarm"
             /\ ckSvc' = <<Head(ckChan)>>
       /\ (CheckerGetAlarm /\ ckSvc[1].id \notin DOMAIN active) => ckPc' = "setAlarm"
       /\ (CheckerGetAlarm /\ ckSvc[1].id \in DOMAIN active) => ckPc' = "sendAlerts"
       /\ CheckerSetAlarm =>
             /\ ckSvc[1].id \in DOMAIN active'
             /\ ckPc' = "sendAlerts"]_vars

\* The second pass has found the never pinged service, whose timeout is the long
\* one, overdue again and is about to call SendAlerts.
C14_Witness ==
    /\ passes = 2
    /\ ckPc = "sendAlerts"
    /\ ckSvc[1].timeout = 1000
    /\ ckSvc[1].id \notin DOMAIN heartbeats
    /\ ckSvc[1].id \in DOMAIN active

\* C20: recovery notifications are not debounced.  Whatever debounce and
\* lastMessage are, SendRecoveryNotifications starts with the first notification
\* of the recovery list, emits (dispatches or enqueues) one notification per step
\* of its loop and ends only when every notification of the list is emitted.
C20_RecoveryNotDebounced ==
    [][\A h \in Handlers :
        /\ HandlerClearAlarm(h) => (hPc'[h] = "recover" /\ hIdx'[h] = 1)
        /\ (hPc[h] = "recover" /\ hIdx[h] <= Len(hSvc[h][1].recoveryNotifications)) =>
              ENABLED SendRecoveryEmit(h)
        /\ SendRecoveryEmit(h) =>
              /\ hIdx'[h] = hIdx[h] + 1
              /\ outbound' + enqueued' = outbound + enqueued + 1
              /\ QueueWired =>
                    /\ enqueued' \in DOMAIN items'
                    /\ items'[enqueued'] = NotificationTask(hSvc[h][1],
                            hSvc[h][1].recoveryNotifications[hIdx[h]], TRUE)
        /\ SendRecoveryDone(h) =>
              hIdx[h] = Len(hSvc[h][1].recoveryNotifications) + 1]_vars

\* A handler has emitted the recovery notification of a service whose debounce
\* is positive and whose last alert is younger than the debounce.
C20_Witness ==
    \E h \in Handlers :
        /\ hPc[h] = "recover"
        /\ hIdx[h] = Len(hSvc[h][1].recoveryNotifications) + 1
        /\ hSvc[h][1].debounce > 0
        /\ hSvc[h][1].id \in DOMAIN lastMessage
        /\ now - hSvc[h][1].debounce < lastMessage[hSvc[h][1].id]
        /\ outbound + enqueued = Len(hSvc[h][1].alertNotifications) + 1

\* C37: a SendAlerts call for a service with debounce d > 0 that is made less
\* than d after the last SendRecoveryNotifications call of the service wrote
\* lastMessage is suppressed as after an alert: the call ends without an
\* emission and without writing lastMessage; a call that goes on to emit is
\* made d or more after that recovery.
C37_DebounceAfterRecovery ==
    [][/\ (/\ ckPc = "sendAlerts"
           /\ ckPc' # "sendAlerts"
           /\ ckSvc[1].debounce > 0
           /\ ckSvc[1].id \in DOMAIN prevRecoveryAt
           /\ now - prevRecoveryAt[ckSvc[1].id] < ckSvc[1].debounce)
            => /\ ckPc' = "next"
               /\ UNCHANGED <<lastMessage, queueVars, outbound, passLog>>
       /\ (/\ ckPc = "sendAlerts"
           /\ ckPc' = "emit"
           /\ ckSvc[1].debounce > 0
           /\ ckSvc[1].id \in DOMAIN prevRecoveryAt)
            => now - prevRecoveryAt[ckSvc[1].id] >= ckSvc[1].debounce]_vars

\* C32: timestamps round-trip at full precision.  In both backends a Get that
\* follows a Set of the clock reading returns that reading with its sub-second
\* part: the heartbeat after SetLastHeartbeat, the alarm after
\* SetAlarmActiveSince, the last message after SetLastMessageSendTimestamp.
C32_TimestampRoundTrip ==
    [][/\ \A h \in Handlers :
            UpdateLastHeartbeat(h) =>
                (GetLastHeartbeat(hSvc[h][1].id) = [t |-> now, err |-> "nil"])'
       /\ CheckerSetAlarm =>
                (GetAlarmActiveSince(ckSvc[1].id) = [t |-> now, err |-> "nil"])'
       /\ SendAlertsDone =>
                /\ ckSvc[1].id \in DOMAIN lastMessage'
                /\ lastMessage'[ckSvc[1].id] = now
       /\ \A h \in Handlers :
            SendRecoveryDone(h) =>
                /\ hSvc[h][1].id \in DOMAIN lastMessage'
                /\ lastMessage'[hSvc[h][1].id] = now
      ]_vars

(***************************************************************************)
(* The store may fail: a call of the etcd store returns an error (the      *)
(* request ran into its deadline, the cluster was unavailable).            *)
(***************************************************************************)
\* updateLastHeartbeat when SetLastHeartbeat returns an error: the error is logged
\* and the function goes on with GetAlarmActiveSince.
UpdateLastHeartbeatFails(h) ==
    /\ hPc[h] = "setHeartbeat"
    /\ backend = "etcd"
    /\ hPc' = [hPc EXCEPT ![h] = "getAlarm"]
    /\ UNCHANGED coordVars
    /\ UNCHANGED <<now, backend, adminStatus, mem, services, storeVars, queueVars, outbound,
                   checkerVars, hSvc, hIdx, pings, historyVars>>

\* checkDeadlineOfService when GetLastHeartbeat returns an error that is not
\* ErrNotFound: the error is logged, t is the time.Time{} the store returned with
\* it, and the function goes on with time.Since(t).
CheckDeadlineOfServiceGetFails ==
    /\ ckPc = "next"
    /\ ckChan # <<>>
    /\ backend = "etcd"
    /\ LET svc == Head(ckChan) IN
         /\ ckChan' = Tail(ckChan)
         /\ passChecked' = Append(passChecked, svc)
         /\ pingSinceCheck' = [pingSinceCheck EXCEPT ![svc.id] = FALSE]
         /\ IF TimeSince(ZeroTime) > svc.timeout
            THEN /\ ckPc' = "getAlarm"
                 /\ ckSvc' = <<svc>>
                 /\ passOverdue' = passOverdue \cup {svc.id}
            ELSE /\ ckPc' = "next"
                 /\ ckSvc' = <<>>
                 /\ UNCHANGED passOverdue
    /\ UNCHANGED coordVars
    /\ UNCHANGED <<now, backend, adminStatus, mem, services, storeVars, queueVars, outbound,
                   ckIdx, passes, handlerVars, recoveryCalls, hWrote, hFound, hRecov,
                   prevAlertAt, prevRecoveryAt, realPingAt, passLog>>

\* GetAlarmActiveSince returns an error that is not ErrNotFound: the alarm is not
\* written and SendAlerts is called.
CheckerGetAlarmFails ==
    /\ ckPc = "getAlarm"
    /\ backend = "etcd"
    /\ ckPc' = "sendAlerts"
    /\ UNCHANGED coordVars
    /\ UNCHANGED <<now, backend, adminStatus, mem, services, storeVars, queueVars, outbound,
                   ckChan, ckSvc, ckIdx, passes, handlerVars, historyVars>>

\* SetAlarmActiveSince returns an error: it is logged and SendAlerts is called.
CheckerSetAlarmFails ==
    /\ ckPc = "setAlarm"
    /\ backend = "etcd"
    /\ ckPc' = "sendAlerts"
    /\ UNCHANGED coordVars
    /\ UNCHANGED <<now, backend, adminStatus, mem, services, storeVars, queueVars, outbound,
                   ckChan, ckSvc, ckIdx, passes, handlerVars, historyVars>>

NextStoreFaults ==
    \/ NextAtInstant
    \/ \E h \in Handlers : UpdateLastHeartbeatFails(h)
    \/ CheckDeadlineOfServiceGetFails
    \/ CheckerGetAlarmFails
    \/ CheckerSetAlarmFails

SpecStoreFaults == InitAtInstant /\ [][NextStoreFaults]_vars

\* The same faults while the clock advances.
NextTimedFaults ==
    \/ NextStoreFaults
    \/ Tick

\* The services of this specification take pings without a token.
InitTimedFaults ==
    /\ Init
    /\ \A i \in 1..Len(services) : services[i].token = ""

SpecTimedFaults == InitTimedFaults /\ [][NextTimedFaults]_vars

\* handlePing writes its answer, status 200, when updateLastHeartbeat has returned.
Answers200(h) ==
    \/ HandlerGetAlarm(h) /\ hPc'[h] = "idle"
    \/ SendRecoveryDone(h)

\* C23: only a NotFound of GetLastHeartbeat counts as the zero timestamp.  A
\* service whose stored heartbeat lies within its timeout is not taken as overdue
\* by a check, also when the read of the heartbeat fails: the check of the
\* service ends, no alarm is set and nothing is emitted for it, and the pass goes
\* on with the next config.
C23_ReadFailureAbortsCheck ==
    [][(/\ ckPc = "next"
        /\ ckChan # <<>>
        /\ ckChan' = Tail(ckChan)
        /\ ~Overdue(Head(ckChan))) =>
            (/\ ckPc' = "next"
             /\ passOverdue' = passOverdue
             /\ UNCHANGED <<storeVars, queueVars, outbound>>)]_vars

\* C25: the alarm record is a first-transition marker.  The checker writes
\* active[id] only when it found no alarm of the service, and writes the clock
\* reading; a step that finds the alarm leaves it as it is and calls SendAlerts;
\* no step replaces the timestamp of an alarm; and when the write fails the check
\* goes on with SendAlerts.
C25_AlarmIsFirstTransitionMarker ==
    [][/\ CheckerSetAlarm =>
            /\ ckSvc[1].id \notin DOMAIN active
            /\ active' = SetAlarmActiveSince(ckSvc[1].id, now)
       /\ (CheckerGetAlarm /\ ckSvc[1].id \in DOMAIN active) =>
            (ckPc' = "sendAlerts" /\ active' = active)
       /\ \A id \in DOMAIN active \cap DOMAIN active' : active'[id] = active[id]
       /\ CheckerSetAlarmFails => (ckPc' = "sendAlerts" /\ active' = active)]_vars

\* A pass at a later clock reading found the alarm of an earlier pass, left its
\* timestamp and emitted the alerts of the service.
C25_Witness ==
    /\ passes = 2
    /\ ckPc = "emit"
    /\ ckIdx > 1
    /\ ckSvc[1].id \in DOMAIN active
    /\ active[ckSvc[1].id] < StoredTime(now)
    /\ backend = "etcd"

\* C13: heartbeat freshness.  Whenever a ping is answered 200 the store holds a
\* heartbeat of the service that was written at the time of the request (the
\* stored value is less than a second older than the clock reading).
C13_HeartbeatFreshness ==
    [][\A h \in Handlers :
        Answers200(h) =>
            /\ hSvc[h][1].id \in DOMAIN heartbeats'
            /\ now - heartbeats'[hSvc[h][1].id] < TicksPerSecond]_vars

(***************************************************************************)
(* Passes over several services, with failing calls: the listing of the    *)
(* configs, Enqueue or the outbound call of a notification, and the write  *)
(* of the last message timestamp may return an error.                      *)
(***************************************************************************)
\* GetServiceConfigs of the etcd store fails: the Get fails (nothing is sent),
\* or the value of the k+1-th key does not decode after k configs were sent.  The
\* error goes to the error channel, checkDeadlines logs it and receives the
\* configs that were sent.
CheckDeadlinesListFails ==
    /\ ckPc = "idle"
    /\ passes < MaxPasses
    /\ backend = "etcd"
    /\ passes' = passes + 1
    /\ \E k \in 0..(Len(services) - 1) : ckChan' = SubSeq(services, 1, k)
    /\ ckPc' = "next"
    /\ UNCHANGED coordVars
    /\ UNCHANGED <<now, backend, adminStatus, mem, services, storeVars, queueVars, outbound,
                   ckSvc, ckIdx, handlerVars, historyVars>>

\* SendAlerts when GetLastMessageSendTimestamp returns an error: the debounce
\* test is skipped and the alerts are sent.
SendAlertsBeginGetFails ==
    /\ ckPc = "sendAlerts"
    /\ backend = "etcd"
    /\ ckSvc[1].debounce > 0
    /\ ckPc' = "emit"
    /\ ckIdx' = 1
    /\ UNCHANGED coordVars
    /\ UNCHANGED <<now, backend, adminStatus, mem, services, storeVars, queueVars, outbound,
                   ckChan, ckSvc, passes, handlerVars, historyVars>>

\* The error of SendAlerts ends the pass (not what checkDeadlines does).
SendAlertsEmitFailsEndsPass ==
    /\ ckPc = "emit"
    /\ ckIdx <= Len(ckSvc[1].alertNotifications)
    /\ ckPc' = "idle"
    /\ ckChan' = <<>>
    /\ ckSvc' = <<>>
    /\ ckIdx' = 0
    /\ passLog' = <<>>
    /\ passOverdue' = {}
    /\ passChecked' = <<>>
    /\ UNCHANGED coordVars
    /\ UNCHANGED <<now, backend, adminStatus, mem, services, storeVars, queueVars, outbound,
                   passes, handlerVars, pingSinceCheck, recoveryCalls, hWrote, hFound,
                   hRecov, prevAlertAt, prevRecoveryAt, realPingAt>>

\* SendAlerts returns the error of Enqueue, of the decoding of the notification
\* config or of the outbound call; checkDeadlineOfService returns it and
\* checkDeadlines logs it and receives the next config.
SendAlertsEmitFails ==
    /\ ckPc = "emit"
    /\ ckIdx <= Len(ckSvc[1].alertNotifications)
    /\ ckPc' = "next"
    /\ ckSvc' = <<>>
    /\ ckIdx' = 0
    /\ UNCHANGED coordVars
    /\ UNCHANGED <<now, backend, adminStatus, mem, services, storeVars, queueVars, outbound,
                   ckChan, passes, handlerVars, historyVars>>

\* SendAlerts returns the error of SetLastMessageSendTimestamp.
SendAlertsDoneFails ==
    /\ ckPc = "emit"
    /\ ckIdx > Len(ckSvc[1].alertNotifications)
    /\ backend = "etcd"
    /\ ckPc' = "next"
    /\ ckSvc' = <<>>
    /\ ckIdx' = 0
    /\ UNCHANGED coordVars
    /\ UNCHANGED <<now, backend, adminStatus, mem, services, storeVars, queueVars, outbound,
                   ckChan, passes, handlerVars, historyVars>>

\* The end of a SendRecoveryNotifications call that returns an error;
\* updateLastHeartbeat logs it and handlePing answers.
RecoveryReturnsError(h) ==
    /\ hPc' = [hPc EXCEPT ![h] = "idle"]
    /\ hSvc' = [hSvc EXCEPT ![h] = <<>>]
    /\ hIdx' = [hIdx EXCEPT ![h] = 0]
    /\ hWrote' = [hWrote EXCEPT ![h] = FALSE]
    /\ hFound' = [hFound EXCEPT ![h] = FALSE]
    /\ hRecov' = [hRecov EXCEPT ![h] = 0]
    /\ UNCHANGED coordVars
    /\ UNCHANGED <<now, backend, adminStatus, mem, services, storeVars, queueVars, outbound,
                   checkerVars, pings, pingSinceCheck, recoveryCalls, prevAlertAt, prevRecoveryAt,
                   realPingAt, passLog, passOverdue, passChecked>>

\* A failing call that still records the emission in lastMessage (not what
\* SendRecoveryNotifications does).
SendRecoveryEmitFailsRecorded(h) ==
    /\ hPc[h] = "recover"
    /\ hIdx[h] <= Len(hSvc[h][1].recoveryNotifications)
    /\ lastMessage' = SetLastMessageSendTimestamp(hSvc[h][1].id, now)
    /\ hPc' = [hPc EXCEPT ![h] = "idle"]
    /\ hSvc' = [hSvc EXCEPT ![h] = <<>>]
    /\ hIdx' = [hIdx EXCEPT ![h] = 0]
    /\ hWrote' = [hWrote EXCEPT ![h] = FALSE]
    /\ hFound' = [hFound EXCEPT ![h] = FALSE]
    /\ hRecov' = [hRecov EXCEPT ![h] = 0]
    /\ UNCHANGED coordVars
    /\ UNCHANGED <<now, backend, adminStatus, mem, services, heartbeats, active, queueVars,
                   outbound, checkerVars, pings, pingSinceCheck, recoveryCalls, prevAlertAt, prevRecoveryAt,
                   realPingAt, passLog, passOverdue, passChecked>>

\* Enqueue, the decoding of the notification config or the outbound call fails.
SendRecoveryEmitFails(h) ==
    /\ hPc[h] = "recover"
    /\ hIdx[h] <= Len(hSvc[h][1].recoveryNotifications)
    /\ RecoveryReturnsError(h)

\* SetLastMessageSendTimestamp fails.
SendRecoveryDoneFails(h) ==
    /\ hPc[h] = "recover"
    /\ hIdx[h] > Len(hSvc[h][1].recoveryNotifications)
    /\ backend = "etcd"
    /\ RecoveryReturnsError(h)

\* Two services; the lists of notifications of the first may be empty.
WithNotifications(cfg, alerts, recoveries) ==
    [cfg EXCEPT !.alertNotifications = alerts, !.recoveryNotifications = recoveries]
PassConfigs(id, debounces) ==
    {ServiceConfig(id, "", 2, d) : d \in debounces} \cup
    {WithNotifications(ServiceConfig(id, "", 2, d), <<>>, <<>>) : d \in debounces}

InitPass ==
    /\ now = MaxTime
    /\ backend \in {"memory", "etcd"}
    /\ adminStatus = 0
    /\ mem = MemIdle
    /\ services \in {<<c1, ServiceConfig("svc-2", "", 2, 0)>> :
                        c1 \in PassConfigs("svc-1", Debounces)}
    /\ heartbeats = EmptyMap
    /\ realPingAt = EmptyMap
    /\ active = EmptyMap
    /\ lastMessage = EmptyMap
    /\ items = EmptyMap
    /\ enqueued = 0
    /\ outbound = 0
    /\ ckPc = "idle"
    /\ ckChan = <<>>
    /\ ckSvc = <<>>
    /\ ckIdx = 0
    /\ passes = 0
    /\ hPc = [h \in Handlers |-> "idle"]
    /\ hSvc = [h \in Handlers |-> <<>>]
    /\ hIdx = [h \in Handlers |-> 0]
    /\ pings = 0
    /\ pingSinceCheck = [id \in ConfigIds |-> FALSE]
    /\ recoveryCalls = [id \in ConfigIds |-> 0]
    /\ hWrote = [h \in Handlers |-> FALSE]
    /\ hFound = [h \in Handlers |-> FALSE]
    /\ hRecov = [h \in Handlers |-> 0]
    /\ prevAlertAt = EmptyMap
    /\ prevRecoveryAt = EmptyMap
    /\ passLog = <<>>
    /\ passOverdue = {}
    /\ passChecked = <<>>
    /\ watchBuf = [n \in Nodes |-> <<>>]
    /\ revision = 0
    /\ lockKey = [n \in Nodes |-> 0]
    /\ myRev = [n \in Nodes |-> 0]
    /\ grants = [n \in Nodes |-> 0]
    /\ cancelled = [n \in Nodes |-> 0]
    /\ cPc = [n \in Nodes |-> "off"]
    /\ cKv = [n \in Nodes |-> <<>>]
    /\ returned = EmptyMap
    /\ dispatched = {}
    /\ electKey = [n \in Nodes |-> 0]
    /\ leaderRev = [n \in Nodes |-> 0]
    /\ leaderErr = [n \in Nodes |-> "nil"]
    /\ leaseAlive = [n \in Nodes |-> TRUE]
    /\ nPc = [n \in Nodes |-> "off"]

NextPass ==
    \/ NextAtInstant
    \/ CheckDeadlinesListFails
    \/ SendAlertsBeginGetFails
    \/ SendAlertsEmitFails
    \/ SendAlertsDoneFails
    \/ \E h \in Handlers : SendRecoveryEmitFails(h)
    \/ \E h \in Handlers : SendRecoveryDoneFails(h)

SpecPass == InitPass /\ [][NextPass]_vars

(***************************************************************************)
(* Claims about a pass and about the notifier.                             *)
(***************************************************************************)
\* C26: a pass checks every config the listing yields exactly once, in the order
\* of the listing, and ends when the channel is exhausted.  While a pass runs,
\* the configs checked so far followed by those still in the channel stay the
\* same sequence; the pass ends only with an empty channel; an error of
\* SendAlerts ends the check of its service only; a listing that fails after some
\* configs keeps the configs it has sent.
C26_PassChecksEveryConfigOnce ==
    [][/\ CheckDeadlines => (ckChan' = services /\ passChecked' = <<>>)
       /\ CheckDeadlinesListFails => (passChecked' = <<>> /\ ckPc' = "next")
       /\ (ckPc # "idle" /\ ckPc' # "idle") =>
            passChecked' \o ckChan' = passChecked \o ckChan
       /\ (ckPc # "idle" /\ ckPc' = "idle") => (ckPc = "next" /\ ckChan = <<>>)
       /\ SendAlertsEmitFails => (ckPc' = "next" /\ ckChan' = ckChan)]_vars

\* SendAlerts has failed for the first service (it is overdue, not debounced,
\* has alerts, and its last alert was not emitted) and the pass checks the second.
C26_Witness ==
    /\ ckPc = "emit"
    /\ passChecked = services
    /\ ckSvc[1].id = "svc-2"
    /\ "svc-1" \in passOverdue
    /\ services[1].debounce = 0
    /\ Len(services[1].alertNotifications) = 2
    /\ \A i \in 1..Len(passLog) : passLog[i] # <<"svc-1", 2>>

\* The items of the queue after one Enqueue of task: one more item, which is the
\* task, the others as they were.
EnqueuedOne(task) ==
    /\ Cardinality(DOMAIN items') = Cardinality(DOMAIN items) + 1
    /\ \A k \in DOMAIN items : k \in DOMAIN items' /\ items'[k] = items[k]
    /\ \A k \in DOMAIN items' \ DOMAIN items : items'[k] = task

\* C27: with a queue wired SendAlerts and SendRecoveryNotifications dispatch
\* nothing inline: for every notification of the list, in the order of the list,
\* they enqueue one task with the service, the notification and isRecovery (false
\* for alerts, true for recoveries); without a queue they dispatch every
\* notification inline and enqueue nothing.
C27_EnqueueOrDispatch ==
    [][/\ SendAlertsEmit =>
            /\ ckIdx' = ckIdx + 1
            /\ IF QueueWired
               THEN /\ outbound' = outbound
                    /\ EnqueuedOne([service |-> ckSvc[1],
                            notification |-> ckSvc[1].alertNotifications[ckIdx],
                            isRecovery |-> FALSE])
               ELSE outbound' = outbound + 1 /\ items' = items
       /\ \A h \in Handlers : SendRecoveryEmit(h) =>
            /\ hIdx'[h] = hIdx[h] + 1
            /\ IF QueueWired
               THEN /\ outbound' = outbound
                    /\ EnqueuedOne([service |-> hSvc[h][1],
                            notification |-> hSvc[h][1].recoveryNotifications[hIdx[h]],
                            isRecovery |-> TRUE])
               ELSE outbound' = outbound + 1 /\ items' = items
       /\ IF QueueWired THEN outbound' = outbound ELSE items' = items]_vars

\* A queue is wired, the two alerts and the recovery of a service were enqueued.
C27_Witness ==
    /\ QueueWired
    /\ Cardinality({k \in DOMAIN items : ~items[k].isRecovery}) >= 2
    /\ \E k \in DOMAIN items : items[k].isRecovery /\ items[k].notification = "webhook"
    /\ outbound = 0

\* C28: a SendAlerts call that debounce does not suppress, and every
\* SendRecoveryNotifications call, sets lastMessage of the service to the clock
\* reading, in one step that ends the call, after every notification of the list
\* was enqueued or dispatched, and also when the list is empty; no other step
\* writes lastMessage.
C28_LastMessageAfterAllSpecs ==
    [][/\ SendAlertsDone =>
            /\ lastMessage' = SetLastMessageSendTimestamp(ckSvc[1].id, now)
            /\ \A i \in 1..Len(ckSvc[1].alertNotifications) :
                    \E j \in 1..Len(passLog) : passLog[j] = <<ckSvc[1].id, i>>
            /\ ckPc' = "next"
       /\ \A h \in Handlers : SendRecoveryDone(h) =>
            /\ lastMessage' = SetLastMessageSendTimestamp(hSvc[h][1].id, now)
            /\ hIdx[h] = Len(hSvc[h][1].recoveryNotifications) + 1
            /\ hPc'[h] = "idle"
       /\ lastMessage' # lastMessage =>
            (SendAlertsDone \/ \E h \in Handlers : SendRecoveryDone(h))
       /\ (SendAlertsBegin /\ ~Debounced(ckSvc[1])
            /\ Len(ckSvc[1].alertNotifications) = 0) =>
                (ckPc' = "emit" /\ ckIdx' > Len(ckSvc'[1].alertNotifications))]_vars

\* The lists of the first service are empty and lastMessage was written for it
\* without anything enqueued or dispatched.
C28_Witness ==
    /\ Len(services[1].alertNotifications) = 0
    /\ services[1].id \in DOMAIN lastMessage
    /\ enqueued = 0
    /\ outbound = 0

MaxTasks == 2
MaxPendingUnlocks == 1

alarmVars == <<now, backend, adminStatus, mem, services, storeVars, checkerVars, handlerVars, historyVars>>

\* The lock keys in the order of their creation: the oldest waiter holds the lock.
KeysBefore(keys, rev) == {m \in Nodes : keys[m] # 0 /\ keys[m] < rev}
\* waitDeletes(pfx, rev - 1): no key created before rev is left.
WaitDeletesDone(keys, rev) == KeysBefore(keys, rev) = {}

\* Mutex.Lock, the transaction: the key <prefix>/<lease> is created unless the
\* session has it already; the call succeeds at once when its key is the oldest.
\* concurrency.NewMutex(c.session, key) names the key by the lease, so every Lock
\* call of a node works on the same key.
ConsumerLock(n) ==
    /\ cPc[n] = "loop"
    /\ cancelled[n] <= MaxPendingUnlocks
    /\ LET rev == IF lockKey[n] = 0 THEN revision + 1 ELSE lockKey[n] IN
         /\ revision' = IF lockKey[n] = 0 THEN revision + 1 ELSE revision
         /\ lockKey' = [lockKey EXCEPT ![n] = rev]
         /\ myRev' = [myRev EXCEPT ![n] = rev]
         /\ IF WaitDeletesDone(lockKey, rev)
            THEN /\ grants' = [grants EXCEPT ![n] = @ + 1]
                 /\ cPc' = [cPc EXCEPT ![n] = "get"]
            ELSE /\ cPc' = [cPc EXCEPT ![n] = "lockWait"]
                 /\ UNCHANGED grants
    /\ UNCHANGED <<alarmVars, queueVars, outbound, cancelled, cKv, returned, dispatched, electionVars>>

\* Mutex.Lock, after waitDeletes: the lock is held if the key of the session is
\* still there; with the key gone Lock fails, Dequeue returns the error and the
\* consumer loop ends.
ConsumerLockWait(n) ==
    /\ cPc[n] = "lockWait"
    /\ WaitDeletesDone(lockKey, myRev[n])
    /\ IF lockKey[n] # 0
       THEN /\ grants' = [grants EXCEPT ![n] = @ + 1]
            /\ cPc' = [cPc EXCEPT ![n] = "get"]
       ELSE /\ cPc' = [cPc EXCEPT ![n] = "stopped"]
            /\ UNCHANGED grants
    /\ UNCHANGED <<alarmVars, queueVars, outbound, revision, lockKey, myRev, cancelled,
                   cKv, returned, dispatched, electionVars>>

\* The goroutine started by Lock: once the scope of the Dequeue call is cancelled
\* it deletes the key of the session.
Unlock(n) ==
    /\ cancelled[n] > 0
    /\ cancelled' = [cancelled EXCEPT ![n] = @ - 1]
    /\ grants' = [grants EXCEPT ![n] = @ - 1]
    /\ lockKey' = [lockKey EXCEPT ![n] = 0]
    /\ UNCHANGED <<alarmVars, queueVars, outbound, revision, myRev, cPc, cKv, returned, dispatched,
                   electionVars>>

\* Get with WithFirstKey and WithPrefix: the item with the smallest key.
FirstKey(its) == CHOOSE k \in DOMAIN its : \A j \in DOMAIN its : k <= j

ConsumerGet(n) ==
    /\ cPc[n] = "get"
    /\ IF DOMAIN items # {}
       THEN /\ cKv' = [cKv EXCEPT ![n] =
                    <<[key |-> FirstKey(items), value |-> <<items[FirstKey(items)]>>]>>]
            /\ cPc' = [cPc EXCEPT ![n] = "decode"]
       ELSE /\ cPc' = [cPc EXCEPT ![n] = "watchOpen"]
            /\ UNCHANGED cKv
    /\ UNCHANGED <<alarmVars, queueVars, outbound, revision, lockKey, myRev, grants,
                   cancelled, returned, dispatched, electionVars>>

\* q.cli.Watch(ctx, key, WithPrefix()): the watch starts at the revision current
\* when it is created.
ConsumerWatchOpen(n) ==
    /\ cPc[n] = "watchOpen"
    /\ cPc' = [cPc EXCEPT ![n] = "watching"]
    /\ watchBuf' = [watchBuf EXCEPT ![n] = <<>>]
    /\ UNCHANGED <<alarmVars, items, enqueued, outbound, revision, lockKey, myRev, grants,
                   cancelled, cKv, returned, dispatched, electionVars>>

\* watchResp := <-ch; kv = watchResp.Events[0].Kv
ConsumerWatchReceive(n) ==
    /\ cPc[n] = "watching"
    /\ watchBuf[n] # <<>>
    /\ cKv' = [cKv EXCEPT ![n] =
            <<[key |-> watchBuf[n][1].key, value |-> watchBuf[n][1].value]>>]
    /\ watchBuf' = [watchBuf EXCEPT ![n] = <<>>]
    /\ cPc' = [cPc EXCEPT ![n] = "decode"]
    /\ UNCHANGED <<alarmVars, items, enqueued, outbound, revision, lockKey, myRev, grants,
                   cancelled, returned, dispatched, electionVars>>

\* A return of Dequeue with a task although the stream closed (not what
\* Dequeue does).
ConsumerWatchClosedReturnsTask(n) ==
    /\ cPc[n] = "watching"
    /\ watchBuf[n] = <<>>
    /\ DOMAIN items # {}
    /\ cancelled' = [cancelled EXCEPT ![n] = @ + 1]
    /\ cKv' = [cKv EXCEPT ![n] =
            <<[key |-> FirstKey(items), value |-> <<items[FirstKey(items)]>>]>>]
    /\ cPc' = [cPc EXCEPT ![n] = "dispatch"]
    /\ UNCHANGED <<alarmVars, queueVars, outbound, revision, lockKey, myRev, grants,
                   returned, dispatched, electionVars>>

\* watchResp, ok := <-ch with ok false: the scope of the consumer is cancelled or
\* the stream ends before an event arrives.  Dequeue returns ErrQueueEmpty, its
\* deferred cancel() wakes the unlock goroutine, and the consumer loop returns
\* the error.
ConsumerWatchClosed(n) ==
    /\ cPc[n] = "watching"
    /\ watchBuf[n] = <<>>
    /\ cancelled' = [cancelled EXCEPT ![n] = @ + 1]
    /\ cPc' = [cPc EXCEPT ![n] = "stopped"]
    /\ UNCHANGED <<alarmVars, queueVars, outbound, revision, lockKey, myRev, grants,
                   cKv, returned, dispatched, electionVars>>

\* json.Unmarshal(kv.Value, target) fails on the empty value of a delete event.
Decodable(kv) == kv.value # <<>>

\* Unmarshal, Delete of the key, return; the deferred cancel() wakes the unlock
\* goroutine.  A Dequeue error ends the consumer loop.
ConsumerDelete(n) ==
    /\ cPc[n] = "decode"
    /\ cancelled' = [cancelled EXCEPT ![n] = @ + 1]
    /\ IF Decodable(cKv[n][1])
       THEN /\ items' = MapDelete(items, cKv[n][1].key)
            /\ watchBuf' = IF cKv[n][1].key \in DOMAIN items
                           THEN Notify(watchBuf, [type |-> "DELETE",
                                    key |-> cKv[n][1].key, value |-> <<>>])
                           ELSE watchBuf
            /\ returned' = MapPut(returned, cKv[n][1].key,
                    IF cKv[n][1].key \in DOMAIN returned
                    THEN returned[cKv[n][1].key] + 1 ELSE 1)
            /\ cPc' = [cPc EXCEPT ![n] = "dispatch"]
            /\ UNCHANGED cKv
       ELSE /\ cPc' = [cPc EXCEPT ![n] = "stopped"]
            /\ cKv' = [cKv EXCEPT ![n] = <<>>]
            /\ UNCHANGED <<items, watchBuf, returned>>
    /\ UNCHANGED <<alarmVars, enqueued, outbound, revision, lockKey, myRev, grants,
                   dispatched, electionVars>>

\* A dispatch that tests the debounce of the task's service again (not what the
\* consumer does).
ConsumerDispatchDebounced(n) ==
    /\ cPc[n] = "dispatch"
    /\ ~Debounced(cKv[n][1].value[1].service)
    /\ outbound' = outbound + 1
    /\ dispatched' = dispatched \cup {cKv[n][1].key}
    /\ cKv' = [cKv EXCEPT ![n] = <<>>]
    /\ cPc' = [cPc EXCEPT ![n] = "loop"]
    /\ UNCHANGED <<alarmVars, queueVars, revision, lockKey, myRev, grants, cancelled,
                   returned, electionVars>>

\* The dequeued task is dispatched by an outbound call.
ConsumerDispatch(n) ==
    /\ cPc[n] = "dispatch"
    /\ outbound' = outbound + 1
    /\ dispatched' = dispatched \cup {cKv[n][1].key}
    /\ cKv' = [cKv EXCEPT ![n] = <<>>]
    /\ cPc' = [cPc EXCEPT ![n] = "loop"]
    /\ UNCHANGED <<alarmVars, queueVars, revision, lockKey, myRev, grants, cancelled,
                   returned, electionVars>>

\* The dispatch of the dequeued task fails (the notification config does not
\* decode, the webhook or Slack call returns an error): the consumer loop returns
\* the error and ends.
ConsumerDispatchFails(n) ==
    /\ cPc[n] = "dispatch"
    /\ cKv' = [cKv EXCEPT ![n] = <<>>]
    /\ cPc' = [cPc EXCEPT ![n] = "stopped"]
    /\ UNCHANGED <<alarmVars, queueVars, outbound, revision, lockKey, myRev, grants,
                   cancelled, returned, dispatched, electionVars>>

ConsumerStep(n) ==
    \/ ConsumerLock(n)
    \/ ConsumerLockWait(n)
    \/ ConsumerGet(n)
    \/ ConsumerWatchOpen(n)
    \/ ConsumerWatchReceive(n)
    \/ ConsumerDelete(n)
    \/ ConsumerDispatch(n)
    \/ ConsumerDispatchFails(n)

\* etcdQueue.Enqueue, called by the notifier of the node that checks deadlines.
EnqueueTask ==
    /\ enqueued < MaxTasks
    /\ \E i \in 1..Len(services) :
         /\ items' = Enqueue(items,
                NotificationTask(services[i], services[i].alertNotifications[1], FALSE))
         /\ watchBuf' = Notify(watchBuf, [type |-> "PUT", key |-> EnqueueKey,
                value |-> <<NotificationTask(services[i],
                    services[i].alertNotifications[1], FALSE)>>])
    /\ enqueued' = enqueued + 1
    /\ UNCHANGED <<alarmVars, outbound, consumerVars, electionVars>>

InitQueue ==
    /\ now = 0
    /\ backend = "etcd"
    /\ adminStatus = 0
    /\ mem = MemIdle
    /\ services = <<ServiceConfig("svc-1", "", 2, 0)>>
    /\ heartbeats = EmptyMap
    /\ active = EmptyMap
    /\ lastMessage = EmptyMap
    /\ items = EmptyMap
    /\ enqueued = 0
    /\ outbound = 0
    /\ ckPc = "idle"
    /\ ckChan = <<>>
    /\ ckSvc = <<>>
    /\ ckIdx = 0
    /\ passes = 0
    /\ hPc = [h \in Handlers |-> "idle"]
    /\ hSvc = [h \in Handlers |-> <<>>]
    /\ hIdx = [h \in Handlers |-> 0]
    /\ pings = 0
    /\ pingSinceCheck = [id \in ServiceIds |-> FALSE]
    /\ recoveryCalls = [id \in ServiceIds |-> 0]
    /\ hWrote = [h \in Handlers |-> FALSE]
    /\ hFound = [h \in Handlers |-> FALSE]
    /\ hRecov = [h \in Handlers |-> 0]
    /\ prevAlertAt = EmptyMap
    /\ prevRecoveryAt = EmptyMap
    /\ realPingAt = EmptyMap
    /\ passLog = <<>>
    /\ passOverdue = {}
    /\ passChecked = <<>>
    /\ watchBuf = [n \in Nodes |-> <<>>]
    /\ revision = 0
    /\ lockKey = [n \in Nodes |-> 0]
    /\ myRev = [n \in Nodes |-> 0]
    /\ grants = [n \in Nodes |-> 0]
    /\ cancelled = [n \in Nodes |-> 0]
    /\ cPc = [n \in Nodes |-> "loop"]
    /\ cKv = [n \in Nodes |-> <<>>]
    /\ returned = EmptyMap
    /\ dispatched = {}
    /\ electKey = [n \in Nodes |-> 0]
    /\ leaderRev = [n \in Nodes |-> 0]
    /\ leaderErr = [n \in Nodes |-> "nil"]
    /\ leaseAlive = [n \in Nodes |-> TRUE]
    /\ nPc = [n \in Nodes |-> "off"]

NextQueue ==
    \/ EnqueueTask
    \/ \E n \in Nodes : ConsumerLock(n)
    \/ \E n \in Nodes : ConsumerLockWait(n)
    \/ \E n \in Nodes : ConsumerGet(n)
    \/ \E n \in Nodes : ConsumerWatchOpen(n)
    \/ \E n \in Nodes : ConsumerWatchReceive(n)
    \/ \E n \in Nodes : ConsumerDelete(n)
    \/ \E n \in Nodes : ConsumerDispatch(n)
    \/ \E n \in Nodes : ConsumerDispatchFails(n)
    \/ \E n \in Nodes : ConsumerWatchClosed(n)
    \/ \E n \in Nodes : Unlock(n)

SpecQueue == InitQueue /\ [][NextQueue]_vars

\* Every consumer loop and every unlock goroutine is a goroutine of its own: the
\* Go scheduler runs each of them as long as it can take a step.  Nothing makes
\* the stream of a watch close: ConsumerWatchClosed is not a step of ConsumerStep.
FairSpecQueue ==
    /\ SpecQueue
    /\ \A n \in Nodes : WF_vars(ConsumerStep(n)) /\ WF_vars(Unlock(n))

(***************************************************************************)
(* Claims about the queue and the lock.                                    *)
(***************************************************************************)
\* C2: no task is consumed twice: no two Dequeue calls return the same item.
C2_NoTaskConsumedTwice ==
    \A k \in DOMAIN returned : returned[k] <= 1

\* C3: the lock is mutually exclusive and not reentrant: from the moment a Lock
\* call returns success until the Unlock started by the cancellation of its scope
\* has run, no other Lock call on the key returns success, from any node.
C3_LockMutuallyExclusive ==
    \A a, b \in Nodes :
        /\ grants[a] <= 1
        /\ a # b => ~(grants[a] > 0 /\ grants[b] > 0)

\* C22: the consumer loop survives the failure of a task: when the dispatch of a
\* dequeued task fails, the error is logged and the loop goes on with the next
\* Dequeue; it does not end.
C22_ConsumerSurvivesTaskFailure ==
    [][\A n \in Nodes : ConsumerDispatchFails(n) => cPc'[n] = "loop"]_vars

\* C29: Dequeue deletes an item if and only if it returns it.  A Dequeue that
\* returns a task has removed exactly the item it read, the task is the one that
\* was enqueued under that key, and every other item is left as it was; the item
\* read from a queue that is not empty is the one with the smallest key; a
\* Dequeue that fails (the value does not decode) removes nothing.
C29_DequeueDeletesWhatItReturns ==
    [][\A n \in Nodes :
        /\ (ConsumerGet(n) /\ DOMAIN items # {}) => cKv'[n][1].key = FirstKey(items)
        /\ ConsumerDelete(n) =>
            IF cPc'[n] = "dispatch"
            THEN /\ cKv[n][1].key \in DOMAIN items
                 /\ cKv[n][1].value = <<items[cKv[n][1].key]>>
                 /\ items' = MapDelete(items, cKv[n][1].key)
            ELSE items' = items]_vars

C4_EveryTaskEventuallyDequeued ==
    \A k \in 1..MaxTasks :
        (k <= enqueued) ~>
            (k \in DOMAIN returned \/ \E n \in Nodes : cPc[n] = "stopped")

(***************************************************************************)
(* Leader election: checkDeadlinesIfLeader on every node, etcdClient.      *)
(* IsLeader, Election.Campaign on the session of the node.                 *)
(***************************************************************************)
MaxCampaigns == 4

nonElectionVars == <<alarmVars, queueVars, outbound, consumerVars>>

\* c.election.Key() == id: the key of the election is "/deadman-switch-leader/<lease>"
\* once a campaign was started and "" before, id is "/deadman-switch/check-leader".
ElectionKey(n) == IF leaderRev[n] = 0 THEN "" ELSE "/deadman-switch-leader/" \o n
IsLeaderShortcut(n) == ElectionKey(n) = "/deadman-switch/check-leader"

\* A ticker fires on node n; IsLeader starts Campaign: the transaction puts the
\* key of the node with its lease unless the key is there.  With the lease gone
\* the put fails, IsLeader returns the error and the tick ends.
IsLeaderBegin(n) ==
    /\ nPc[n] = "idle"
    /\ ~IsLeaderShortcut(n)
    /\ IF ~leaseAlive[n]
       THEN /\ leaderErr' = [leaderErr EXCEPT ![n] = "requested lease not found"]
            /\ UNCHANGED <<revision, electKey, leaderRev, nPc>>
       ELSE /\ electKey[n] = 0 => revision < MaxCampaigns
            /\ UNCHANGED leaderErr
            /\ revision' = IF electKey[n] = 0 THEN revision + 1 ELSE revision
            /\ electKey' = [electKey EXCEPT ![n] = IF @ = 0 THEN revision + 1 ELSE @]
            /\ leaderRev' = [leaderRev EXCEPT ![n] =
                    IF electKey[n] = 0 THEN revision + 1 ELSE electKey[n]]
            /\ nPc' = [nPc EXCEPT ![n] = "campaign"]
    /\ UNCHANGED <<alarmVars, queueVars, outbound, lockKey, myRev, grants, cancelled, cPc,
                   cKv, returned, dispatched, leaseAlive>>

CampaignReturnsAtOnce(n) == TRUE
CampaignNeverReturns(n) == FALSE
\* Campaign returns nil when waitDeletes finds no key created before the key of
\* the node.
CampaignReturns(n) == WaitDeletesDone(electKey, leaderRev[n])

\* Campaign returned nil, IsLeader returns true and checkDeadlines starts.
CampaignWon(n) ==
    /\ nPc[n] = "campaign"
    /\ CampaignReturns(n)
    /\ nPc' = [nPc EXCEPT ![n] = "leading"]
    /\ leaderErr' = [leaderErr EXCEPT ![n] = "nil"]
    /\ UNCHANGED <<nonElectionVars, revision, electKey, leaderRev, leaseAlive>>

\* The error Campaign returns when its context runs into the deadline, and what
\* IsLeader makes of it: only context.Canceled is turned into nil.
CampaignDeadlineError == "context deadline exceeded"
DeadlineError == IF CampaignDeadlineError = "context canceled" THEN "nil"
                 ELSE CampaignDeadlineError

\* The one second of the campaign is over: Campaign resigns (deletes the key it
\* created) and IsLeader returns the error, the tick ends.
CampaignTimeout(n) ==
    /\ nPc[n] = "campaign"
    /\ electKey' = [electKey EXCEPT ![n] = 0]
    /\ nPc' = [nPc EXCEPT ![n] = "idle"]
    /\ leaderErr' = [leaderErr EXCEPT ![n] = DeadlineError]
    /\ UNCHANGED <<nonElectionVars, revision, leaderRev, leaseAlive>>

\* checkDeadlines of the leader returns; the loop waits for the next tick.
CheckDone(n) ==
    /\ nPc[n] = "leading"
    /\ nPc' = [nPc EXCEPT ![n] = "idle"]
    /\ UNCHANGED <<nonElectionVars, revision, electKey, leaderRev, leaderErr, leaseAlive>>

\* The lease of the session of n expires (keep-alives lost for 5 seconds): etcd
\* deletes the keys attached to it.
LeaseExpire(n) ==
    /\ leaseAlive[n]
    /\ leaseAlive' = [leaseAlive EXCEPT ![n] = FALSE]
    /\ electKey' = [electKey EXCEPT ![n] = 0]
    /\ UNCHANGED <<nonElectionVars, revision, leaderRev, leaderErr, nPc>>

InitElection ==
    /\ now = 0
    /\ backend = "etcd"
    /\ adminStatus = 0
    /\ mem = MemIdle
    /\ services = <<ServiceConfig("svc-1", "", 2, 0)>>
    /\ heartbeats = EmptyMap
    /\ active = EmptyMap
    /\ lastMessage = EmptyMap
    /\ items = EmptyMap
    /\ enqueued = 0
    /\ outbound = 0
    /\ ckPc = "idle"
    /\ ckChan = <<>>
    /\ ckSvc = <<>>
    /\ ckIdx = 0
    /\ passes = 0
    /\ hPc = [h \in Handlers |-> "idle"]
    /\ hSvc = [h \in Handlers |-> <<>>]
    /\ hIdx = [h \in Handlers |-> 0]
    /\ pings = 0
    /\ pingSinceCheck = [id \in ServiceIds |-> FALSE]
    /\ recoveryCalls = [id \in ServiceIds |-> 0]
    /\ hWrote = [h \in Handlers |-> FALSE]
    /\ hFound = [h \in Handlers |-> FALSE]
    /\ hRecov = [h \in Handlers |-> 0]
    /\ prevAlertAt = EmptyMap
    /\ prevRecoveryAt = EmptyMap
    /\ realPingAt = EmptyMap
    /\ passLog = <<>>
    /\ passOverdue = {}
    /\ passChecked = <<>>
    /\ watchBuf = [n \in Nodes |-> <<>>]
    /\ revision = 0
    /\ lockKey = [n \in Nodes |-> 0]
    /\ myRev = [n \in Nodes |-> 0]
    /\ grants = [n \in Nodes |-> 0]
    /\ cancelled = [n \in Nodes |-> 0]
    /\ cPc = [n \in Nodes |-> "off"]
    /\ cKv = [n \in Nodes |-> <<>>]
    /\ returned = EmptyMap
    /\ dispatched = {}
    /\ electKey = [n \in Nodes |-> 0]
    /\ leaderRev = [n \in Nodes |-> 0]
    /\ leaderErr = [n \in Nodes |-> "nil"]
    /\ leaseAlive = [n \in Nodes |-> TRUE]
    /\ nPc = [n \in Nodes |-> "idle"]

NextElection ==
    \/ \E n \in Nodes : IsLeaderBegin(n)
    \/ \E n \in Nodes : CampaignWon(n)
    \/ \E n \in Nodes : CampaignTimeout(n)
    \/ \E n \in Nodes : CheckDone(n)
    \/ \E n \in Nodes : LeaseExpire(n)

SpecElection == InitElection /\ [][NextElection]_vars

\* C1: leader uniqueness: for any two nodes whose sessions are alive, IsLeader has
\* never returned true on both with both still running their deadline check; there
\* may be no leader for a while, never two.
C1_LeaderUniqueness ==
    \A a, b \in Nodes :
        (a # b /\ leaseAlive[a] /\ leaseAlive[b]) =>
            ~(nPc[a] = "leading" /\ nPc[b] = "leading")

\* A node leads while the other one, its session alive, campaigns behind it, and
\* the leadership has already changed hands once.
C1_Witness ==
    \E a, b \in Nodes :
        /\ a # b /\ leaseAlive[a] /\ leaseAlive[b]
        /\ nPc[a] = "leading" /\ nPc[b] = "campaign"
        /\ electKey[b] > electKey[a] /\ electKey[a] > 1

\* C24: IsLeader returns false without an error when its campaign of one second
\* runs into the deadline because another node holds the slot; it returns an
\* error only when the store fails (the lease of the session is gone, or the
\* store did not answer within the second although no older key is left).
C24_DeadlineIsNotAnError ==
    [][\A n \in Nodes :
        /\ (CampaignTimeout(n) /\ ~CampaignReturns(n)) => leaderErr'[n] = "nil"
        /\ (leaderErr'[n] # "nil" /\ leaderErr'[n] # leaderErr[n]) =>
                (~leaseAlive[n] \/ CampaignReturns(n))]_vars

(***************************************************************************)
(* The cluster: every node runs Checker.Backend; a tick calls              *)
(* checkDeadlinesIfLeader, which checks the deadlines when IsLeader        *)
(* returned true, or at once when there is no coordination client.         *)
(***************************************************************************)
\* c.concurrency != nil: main creates the client with the etcd backend only.
ClientPresent == backend = "etcd"

electionFrame == <<alarmVars, queueVars, outbound, consumerVars>>

\* A ticker fires on node n: checkDeadlinesIfLeader calls IsLeader.
TickIfLeader(n) ==
    /\ ClientPresent
    /\ IsLeaderBegin(n)

\* The campaign of n waits behind an older key until its second is over.
CampaignDeadline(n) ==
    /\ ~CampaignReturns(n)
    /\ CampaignTimeout(n)

MayCheckAlways(n) == nPc[n] \in {"idle", "campaign", "leading"}
\* err == nil and isLeader: IsLeader has returned true on node n.
MayCheck(n) == nPc[n] = "leading"

\* IsLeader returned true: checkDeadlinesIfLeader calls checkDeadlines.
LeaderCheckDeadlines(n) ==
    /\ MayCheck(n)
    /\ ckPc = "idle"
    /\ passes < MaxPasses
    /\ passes' = passes + 1
    /\ ckChan' = services
    /\ ckPc' = "next"
    /\ nPc' = [nPc EXCEPT ![n] = "checking"]
    /\ UNCHANGED <<now, backend, adminStatus, mem, services, storeVars, queueVars, outbound, ckSvc, ckIdx,
                   handlerVars, historyVars, consumerVars, electKey, leaderRev, leaderErr,
                   leaseAlive>>

\* checkDeadlines has returned on node n; the loop waits for the next tick.
LeaderCheckDone(n) ==
    /\ nPc[n] = "checking"
    /\ ckPc = "idle"
    /\ nPc' = [nPc EXCEPT ![n] = "idle"]
    /\ UNCHANGED <<electionFrame, revision, electKey, leaderRev, leaderErr, leaseAlive>>

\* Without a coordination client every tick calls checkDeadlines.
StandaloneCheckDeadlines ==
    /\ ~ClientPresent
    /\ CheckDeadlines

Healthy(n) == nPc[n] # "dead" /\ leaseAlive[n]

\* The process of node n dies; the pass it was running stops where it is.
Kill(n) ==
    /\ ClientPresent
    /\ nPc[n] # "dead"
    /\ \A m \in Nodes : m # n => Healthy(m)
    /\ nPc' = [nPc EXCEPT ![n] = "dead"]
    /\ IF nPc[n] = "checking"
       THEN /\ ckPc' = "idle"
            /\ ckChan' = <<>>
            /\ ckSvc' = <<>>
            /\ ckIdx' = 0
            /\ passLog' = <<>>
            /\ passOverdue' = {}
            /\ passChecked' = <<>>
       ELSE UNCHANGED <<ckPc, ckChan, ckSvc, ckIdx, passLog, passOverdue, passChecked>>
    /\ UNCHANGED <<now, backend, adminStatus, mem, services, storeVars, queueVars, outbound, passes,
                   handlerVars, pingSinceCheck, recoveryCalls, hWrote, hFound, hRecov,
                   prevAlertAt, prevRecoveryAt, realPingAt, consumerVars, electKey, leaderRev, leaderErr,
                   leaseAlive>>

\* The lease of a dead node runs out five seconds after its last keep-alive.
LeaseExpireDead(n) ==
    /\ nPc[n] = "dead"
    /\ LeaseExpire(n)

\* A node that waits for its next tick loses its lease (its keep-alives did not
\* reach the store in time).
LeaseLost(n) ==
    /\ ClientPresent
    /\ nPc[n] = "idle"
    /\ \A m \in Nodes : m # n => Healthy(m)
    /\ LeaseExpire(n)

InitCluster ==
    /\ now \in 0..MaxTime
    /\ backend \in {"memory", "etcd"}
    /\ adminStatus = 0
    /\ mem = MemIdle
    /\ services \in {<<ServiceConfig(id, "", to, d)>> :
                        id \in ServiceIds, to \in Timeouts, d \in Debounces}
    /\ \E pinged \in SUBSET ServiceIds :
         /\ heartbeats = [id \in pinged |-> 0]
         /\ realPingAt = [id \in pinged |-> 0]
    /\ active = EmptyMap
    /\ lastMessage = EmptyMap
    /\ items = EmptyMap
    /\ enqueued = 0
    /\ outbound = 0
    /\ ckPc = "idle"
    /\ ckChan = <<>>
    /\ ckSvc = <<>>
    /\ ckIdx = 0
    /\ passes = 0
    /\ hPc = [h \in Handlers |-> "idle"]
    /\ hSvc = [h \in Handlers |-> <<>>]
    /\ hIdx = [h \in Handlers |-> 0]
    /\ pings = 0
    /\ pingSinceCheck = [id \in ServiceIds |-> FALSE]
    /\ recoveryCalls = [id \in ServiceIds |-> 0]
    /\ hWrote = [h \in Handlers |-> FALSE]
    /\ hFound = [h \in Handlers |-> FALSE]
    /\ hRecov = [h \in Handlers |-> 0]
    /\ prevAlertAt = EmptyMap
    /\ prevRecoveryAt = EmptyMap
    /\ passLog = <<>>
    /\ passOverdue = {}
    /\ passChecked = <<>>
    /\ watchBuf = [n \in Nodes |-> <<>>]
    /\ revision = 0
    /\ lockKey = [n \in Nodes |-> 0]
    /\ myRev = [n \in Nodes |-> 0]
    /\ grants = [n \in Nodes |-> 0]
    /\ cancelled = [n \in Nodes |-> 0]
    /\ cPc = [n \in Nodes |-> "off"]
    /\ cKv = [n \in Nodes |-> <<>>]
    /\ returned = EmptyMap
    /\ dispatched = {}
    /\ electKey = [n \in Nodes |-> 0]
    /\ leaderRev = [n \in Nodes |-> 0]
    /\ leaderErr = [n \in Nodes |-> "nil"]
    /\ leaseAlive = [n \in Nodes |-> TRUE]
    /\ nPc = [n \in Nodes |-> IF ClientPresent THEN "idle" ELSE "off"]

PassStep ==
    \/ CheckDeadlineOfService
    \/ CheckerGetAlarm
    \/ CheckerSetAlarm
    \/ SendAlertsBegin
    \/ SendAlertsEmit
    \/ SendAlertsDone
    \/ PassDone

NodeStep(n) ==
    \/ TickIfLeader(n)
    \/ CampaignWon(n)
    \/ CampaignDeadline(n)
    \/ LeaderCheckDeadlines(n)
    \/ LeaderCheckDone(n)

NextCluster ==
    \/ \E n \in Nodes : TickIfLeader(n)
    \/ \E n \in Nodes : CampaignWon(n)
    \/ \E n \in Nodes : CampaignDeadline(n)
    \/ \E n \in Nodes : LeaderCheckDeadlines(n)
    \/ \E n \in Nodes : LeaderCheckDone(n)
    \/ StandaloneCheckDeadlines
    \/ CheckDeadlineOfService
    \/ CheckerGetAlarm
    \/ CheckerSetAlarm
    \/ SendAlertsBegin
    \/ SendAlertsEmit
    \/ SendAlertsDone
    \/ PassDone
    \/ \E n \in Nodes : Kill(n)
    \/ \E n \in Nodes : LeaseExpireDead(n)
    \/ \E n \in Nodes : LeaseLost(n)

SpecCluster == InitCluster /\ [][NextCluster]_vars

\* The ticker of every living node keeps firing and its loop keeps running, the
\* pass of the leader keeps running, and the store expires the lease of a dead
\* node when its five seconds are over.
FairSpecCluster ==
    /\ SpecCluster
    /\ \A n \in Nodes : WF_vars(NodeStep(n)) /\ WF_vars(LeaseExpireDead(n))
    /\ WF_vars(PassStep)

(***************************************************************************)
(* Claims about the cluster.                                               *)
(***************************************************************************)
CheckFrame == UNCHANGED <<storeVars, queueVars, outbound, checkerVars, passLog, passOverdue>>

\* C15: with a coordination client, a tick on which IsLeader does not return true
\* (the campaign ran into its deadline, or the call failed because the lease is
\* gone) performs no deadline check: no config is read, no alarm or lastMessage
\* record written, nothing emitted or enqueued, and the loop waits for the next
\* tick; a pass starts, and its steps run, only on a node on which IsLeader
\* returned true.  Without a coordination client every tick starts a pass.
C15_NonLeaderTickChecksNothing ==
    [][/\ \A n \in Nodes :
            (CampaignDeadline(n) \/ (TickIfLeader(n) /\ ~leaseAlive[n])) =>
                (nPc'[n] = "idle" /\ CheckFrame)
       /\ \A n \in Nodes :
            (TickIfLeader(n) /\ leaseAlive[n]) => (nPc'[n] = "campaign" /\ CheckFrame)
       /\ (ClientPresent /\ ckPc = "idle" /\ ckPc' # "idle") =>
            \E n \in Nodes : nPc[n] = "leading" /\ nPc'[n] = "checking"
       /\ (ClientPresent /\ ~CheckFrame) =>
            \E n \in Nodes : nPc[n] \in {"leading", "checking"}
       /\ (~ClientPresent /\ ckPc = "idle" /\ passes < MaxPasses) =>
            ENABLED StandaloneCheckDeadlines]_vars

\* Node b has run into its campaign deadline and resigned (it has campaigned, its
\* lease is alive and its key is gone) while node a runs a pass.
C15_Witness ==
    \E a, b \in Nodes :
        /\ nPc[a] = "checking" /\ ckPc = "getAlarm"
        /\ nPc[b] = "idle" /\ leaseAlive[b]
        /\ leaderRev[b] > 0 /\ electKey[b] = 0

\* The pass of node b has checked every config: each service that is overdue has
\* its alarm set and, unless debounced, each of its alerts emitted once.
TookOver(b) ==
    /\ nPc[b] = "checking"
    /\ ckPc = "next"
    /\ ckChan = <<>>
    /\ \A i \in 1..Len(services) :
          Overdue(services[i]) =>
             /\ services[i].id \in passOverdue
             /\ services[i].id \in DOMAIN active
             /\ services[i].debounce = 0 =>
                  \A j \in 1..Len(services[i].alertNotifications) :
                      Count(passLog, <<services[i].id, j>>) = 1

\* C19: leader failover.  When node a is dead and its lease has expired, the
\* other node, alive with its lease, becomes leader on one of its next ticks and
\* runs a pass that sets the alarm and emits the alerts of every overdue service
\* (as far as the model's budget of campaigns and passes reaches).
C19_LeaderFailover ==
    \A a, b \in Nodes :
        (/\ a # b
         /\ nPc[a] = "dead" /\ ~leaseAlive[a]
         /\ Healthy(b)
         /\ revision < MaxCampaigns /\ passes < MaxPasses)
        ~> TookOver(b)

\* Node a campaigned first and is dead, its lease expired; node b, whose key is
\* younger, runs the second pass of the cluster and found the service overdue.
C19_Witness ==
    \E a, b \in Nodes :
        /\ nPc[a] = "dead" /\ ~leaseAlive[a]
        /\ leaderRev[a] > 0 /\ leaderRev[a] < leaderRev[b]
        /\ passes = 2
        /\ TookOver(b)
        /\ passOverdue # {}

\* C35: the loss of a node's lease is fatal for the node: a node that is running
\* and whose lease is lost eventually stops; it does not go on ticking with a
\* dead coordination session.
C35_LostLeaseIsFatal ==
    \A n \in Nodes : (~leaseAlive[n] /\ nPc[n] # "dead") ~> (nPc[n] = "dead")

(***************************************************************************)
(* The whole notification path of one node with the etcd backend: the      *)
(* checker and the ping handlers enqueue, the consumer of the node         *)
(* dequeues and dispatches.                                                *)
(***************************************************************************)
InitSystem ==
    /\ now = MaxTime
    /\ backend = "etcd"
    /\ adminStatus = 0
    /\ mem = MemIdle
    /\ services = <<ServiceConfig("svc-1", "", 2, 0)>>
    /\ heartbeats = EmptyMap
    /\ realPingAt = EmptyMap
    /\ active = EmptyMap
    /\ lastMessage = EmptyMap
    /\ items = EmptyMap
    /\ enqueued = 0
    /\ outbound = 0
    /\ ckPc = "idle"
    /\ ckChan = <<>>
    /\ ckSvc = <<>>
    /\ ckIdx = 0
    /\ passes = 0
    /\ hPc = [h \in Handlers |-> "idle"]
    /\ hSvc = [h \in Handlers |-> <<>>]
    /\ hIdx = [h \in Handlers |-> 0]
    /\ pings = 0
    /\ pingSinceCheck = [id \in ServiceIds |-> FALSE]
    /\ recoveryCalls = [id \in ServiceIds |-> 0]
    /\ hWrote = [h \in Handlers |-> FALSE]
    /\ hFound = [h \in Handlers |-> FALSE]
    /\ hRecov = [h \in Handlers |-> 0]
    /\ prevAlertAt = EmptyMap
    /\ prevRecoveryAt = EmptyMap
    /\ passLog = <<>>
    /\ passOverdue = {}
    /\ passChecked = <<>>
    /\ watchBuf = [n \in Nodes |-> <<>>]
    /\ revision = 0
    /\ lockKey = [n \in Nodes |-> 0]
    /\ myRev = [n \in Nodes |-> 0]
    /\ grants = [n \in Nodes |-> 0]
    /\ cancelled = [n \in Nodes |-> 0]
    /\ cPc = [n \in Nodes |-> IF n = "A" THEN "loop" ELSE "off"]
    /\ cKv = [n \in Nodes |-> <<>>]
    /\ returned = EmptyMap
    /\ dispatched = {}
    /\ electKey = [n \in Nodes |-> 0]
    /\ leaderRev = [n \in Nodes |-> 0]
    /\ leaderErr = [n \in Nodes |-> "nil"]
    /\ leaseAlive = [n \in Nodes |-> TRUE]
    /\ nPc = [n \in Nodes |-> "off"]

\* The steps of a deployment of one node.  Its session is the only one that
\* creates a lock key, so Mutex.Lock never finds an older key and returns in the
\* step that creates the key: the wait of ConsumerLockWait does not occur.
NextSystem ==
    \/ CheckDeadlines
    \/ CheckDeadlineOfService
    \/ CheckerGetAlarm
    \/ CheckerSetAlarm
    \/ SendAlertsBegin
    \/ SendAlertsEmit
    \/ SendAlertsDone
    \/ PassDone
    \/ \E h \in Handlers, id \in PingIds, token \in PingTokens : HandlePing(h, id, token)
    \/ \E h \in Handlers : UpdateLastHeartbeat(h)
    \/ \E h \in Handlers : HandlerGetAlarm(h)
    \/ \E h \in Handlers : HandlerClearAlarm(h)
    \/ \E h \in Handlers : SendRecoveryEmit(h)
    \/ \E h \in Handlers : SendRecoveryDone(h)
    \/ \E n \in Nodes : ConsumerLock(n)
    \/ \E n \in Nodes : ConsumerGet(n)
    \/ \E n \in Nodes : ConsumerWatchOpen(n)
    \/ \E n \in Nodes : ConsumerWatchReceive(n)
    \/ \E n \in Nodes : ConsumerDelete(n)
    \/ \E n \in Nodes : ConsumerDispatch(n)
    \/ \E n \in Nodes : ConsumerDispatchFails(n)
    \/ \E n \in Nodes : Unlock(n)

SpecSystem == InitSystem /\ [][NextSystem]_vars

\* The task of item k waits in the queue or is in the hands of a consumer.
Pending(k) ==
    \/ k \in DOMAIN items
    \/ \E n \in Nodes : cKv[n] # <<>> /\ cKv[n][1].key = k

\* C16: at-least-once dispatch.  At every moment every task that was enqueued
\* and is no longer waiting for a consumer has been dispatched, or the alarm of
\* its service is still active (so that a later tick enqueues it again); also
\* when the consumer fails after it has deleted the item.
C16_AtLeastOnceDispatch ==
    \A k \in 1..enqueued :
        \/ Pending(k)
        \/ k \in dispatched
        \/ services[1].id \in DOMAIN active

(***************************************************************************)
(* The same node with a clock: the checker enqueues the alerts of a        *)
(* service with or without a debounce, the consumer dispatches them while  *)
(* time passes.                                                            *)
(***************************************************************************)
InitNotify ==
    /\ now = 0
    /\ backend = "etcd"
    /\ adminStatus = 0
    /\ mem = MemIdle
    /\ services \in {<<ServiceConfig("svc-1", "", 2, d)>> : d \in Debounces}
    /\ heartbeats = EmptyMap
    /\ realPingAt = EmptyMap
    /\ active = EmptyMap
    /\ lastMessage = EmptyMap
    /\ items = EmptyMap
    /\ enqueued = 0
    /\ outbound = 0
    /\ ckPc = "idle"
    /\ ckChan = <<>>
    /\ ckSvc = <<>>
    /\ ckIdx = 0
    /\ passes = 0
    /\ hPc = [h \in Handlers |-> "idle"]
    /\ hSvc = [h \in Handlers |-> <<>>]
    /\ hIdx = [h \in Handlers |-> 0]
    /\ pings = 0
    /\ pingSinceCheck = [id \in ServiceIds |-> FALSE]
    /\ recoveryCalls = [id \in ServiceIds |-> 0]
    /\ hWrote = [h \in Handlers |-> FALSE]
    /\ hFound = [h \in Handlers |-> FALSE]
    /\ hRecov = [h \in Handlers |-> 0]
    /\ prevAlertAt = EmptyMap
    /\ prevRecoveryAt = EmptyMap
    /\ passLog = <<>>
    /\ passOverdue = {}
    /\ passChecked = <<>>
    /\ watchBuf = [n \in Nodes |-> <<>>]
    /\ revision = 0
    /\ lockKey = [n \in Nodes |-> 0]
    /\ myRev = [n \in Nodes |-> 0]
    /\ grants = [n \in Nodes |-> 0]
    /\ cancelled = [n \in Nodes |-> 0]
    /\ cPc = [n \in Nodes |-> IF n = "A" THEN "loop" ELSE "off"]
    /\ cKv = [n \in Nodes |-> <<>>]
    /\ returned = EmptyMap
    /\ dispatched = {}
    /\ electKey = [n \in Nodes |-> 0]
    /\ leaderRev = [n \in Nodes |-> 0]
    /\ leaderErr = [n \in Nodes |-> "nil"]
    /\ leaseAlive = [n \in Nodes |-> TRUE]
    /\ nPc = [n \in Nodes |-> "off"]

NextNotify ==
    \/ Tick
    \/ CheckDeadlines
    \/ CheckDeadlineOfService
    \/ CheckerGetAlarm
    \/ CheckerSetAlarm
    \/ SendAlertsBegin
    \/ SendAlertsEmit
    \/ SendAlertsDone
    \/ PassDone
    \/ \E n \in Nodes : ConsumerLock(n)
    \/ \E n \in Nodes : ConsumerGet(n)
    \/ \E n \in Nodes : ConsumerWatchOpen(n)
    \/ \E n \in Nodes : ConsumerWatchReceive(n)
    \/ \E n \in Nodes : ConsumerDelete(n)
    \/ \E n \in Nodes : ConsumerDispatch(n)
    \/ \E n \in Nodes : ConsumerDispatchFails(n)
    \/ \E n \in Nodes : Unlock(n)

SpecNotify == InitNotify /\ [][NextNotify]_vars

\* C31: debounce is decided at enqueue time only.  The consumer dispatches
\* every task it has dequeued, whatever lastMessage holds for the task's service
\* and whatever its debounce: with a dequeued task in hand the dispatch is never
\* held back, the consumer leaves that position only by the outbound call (or
\* its failure), and no step of the consumer or of its unlock goroutine changes
\* lastMessage.
C31_DebounceAtEnqueueOnly ==
    [][\A n \in Nodes :
        /\ cPc[n] = "dispatch" => ENABLED ConsumerDispatch(n)
        /\ (cPc[n] = "dispatch" /\ cPc'[n] # "dispatch") =>
                \/ ConsumerDispatch(n) /\ outbound' = outbound + 1
                \/ ConsumerDispatchFails(n)
        /\ (cPc'[n] # cPc[n] \/ cancelled'[n] # cancelled[n]) =>
                lastMessage' = lastMessage]_vars

\* The consumer holds a dequeued alert of a service that is debounced at this
\* moment (lastMessage was written less than the debounce ago), and it has
\* dispatched an earlier task.
C31_Witness ==
    \E n \in Nodes :
        /\ cPc[n] = "dispatch"
        /\ Debounced(cKv[n][1].value[1].service)
        /\ dispatched # {}
        /\ now > 0

(***************************************************************************)
(* The stored service configs: SaveServiceConfig and DeleteServiceConfig   *)
(* of the two backends, called at bootstrap and by the admin handlers.     *)
(***************************************************************************)
MaxConfigs == 3

Configs == {ServiceConfig(id, tok, to, d) :
                id \in ConfigIds, tok \in Tokens, to \in Timeouts, d \in Debounces}

\* json.Marshal writes the fields of the struct in their order; json.Unmarshal
\* reads them back into a ServiceConfig.
MarshalConfig(cfg) ==
    <<cfg.id, cfg.token, cfg.timeout, cfg.debounce, cfg.alertNotifications,
      cfg.recoveryNotifications>>
UnmarshalConfig(bs) ==
    [id |-> bs[1], token |-> bs[2], timeout |-> bs[3], debounce |-> bs[4],
     alertNotifications |-> bs[5], recoveryNotifications |-> bs[6]]

RemoveAt(seq, i) == SubSeq(seq, 1, i - 1) \o SubSeq(seq, i + 1, Len(seq))

\* etcd: Put of <prefix>/services/<id>; a range read returns the keys in order.
PutConfig(seq, cfg) ==
    IF \E i \in 1..Len(seq) : seq[i].id = cfg.id
    THEN [i \in 1..Len(seq) |-> IF seq[i].id = cfg.id THEN cfg ELSE seq[i]]
    ELSE IF cfg.id = "svc-1" THEN <<cfg>> \o seq ELSE Append(seq, cfg)

\* SaveServiceConfig: the memory store appends to cfg.Services, the etcd store
\* puts the JSON of the config under the key of its id.
SavedConfigs(cfg) ==
    IF backend = "memory" THEN Append(services, cfg)
    ELSE PutConfig(services, UnmarshalConfig(MarshalConfig(cfg)))

SaveServiceConfig(cfg) ==
    /\ Len(services) < MaxConfigs
    /\ services' = SavedConfigs(cfg)
    /\ adminStatus' = 201
    /\ UNCHANGED <<now, backend, mem, storeVars, queueVars, outbound, checkerVars, handlerVars,
                   historyVars, coordVars>>

\* DeleteServiceConfig: the memory store removes the first config with the id and
\* returns an error when there is none; the etcd store deletes the key.
DeleteFound(id) == backend = "etcd" \/ HasServiceConfig(id)
DeletedConfigs(id) ==
    IF HasServiceConfig(id)
    THEN RemoveAt(services, CHOOSE i \in ConfigIndexes(id) :
                                \A j \in ConfigIndexes(id) : i <= j)
    ELSE services

DeleteServiceConfig(id) ==
    /\ services' = DeletedConfigs(id)
    /\ adminStatus' = IF DeleteFound(id) THEN 200 ELSE 404
    /\ UNCHANGED <<now, backend, mem, storeVars, queueVars, outbound, checkerVars, handlerVars,
                   historyVars, coordVars>>

\* The store after the bootstrap of main: no config, or the one of the config file.
InitConfig ==
    /\ now = 0
    /\ backend \in {"memory", "etcd"}
    /\ adminStatus = 0
    /\ mem = MemIdle
    /\ services \in {<<>>, <<ServiceConfig("svc-1", "", 2, 0)>>}
    /\ heartbeats = EmptyMap
    /\ realPingAt = EmptyMap
    /\ active = EmptyMap
    /\ lastMessage = EmptyMap
    /\ items = EmptyMap
    /\ enqueued = 0
    /\ outbound = 0
    /\ ckPc = "idle"
    /\ ckChan = <<>>
    /\ ckSvc = <<>>
    /\ ckIdx = 0
    /\ passes = 0
    /\ hPc = [h \in Handlers |-> "idle"]
    /\ hSvc = [h \in Handlers |-> <<>>]
    /\ hIdx = [h \in Handlers |-> 0]
    /\ pings = 0
    /\ pingSinceCheck = [id \in ServiceIds |-> FALSE]
    /\ recoveryCalls = [id \in ServiceIds |-> 0]
    /\ hWrote = [h \in Handlers |-> FALSE]
    /\ hFound = [h \in Handlers |-> FALSE]
    /\ hRecov = [h \in Handlers |-> 0]
    /\ prevAlertAt = EmptyMap
    /\ prevRecoveryAt = EmptyMap
    /\ passLog = <<>>
    /\ passOverdue = {}
    /\ passChecked = <<>>
    /\ watchBuf = [n \in Nodes |-> <<>>]
    /\ revision = 0
    /\ lockKey = [n \in Nodes |-> 0]
    /\ myRev = [n \in Nodes |-> 0]
    /\ grants = [n \in Nodes |-> 0]
    /\ cancelled = [n \in Nodes |-> 0]
    /\ cPc = [n \in Nodes |-> "off"]
    /\ cKv = [n \in Nodes |-> <<>>]
    /\ returned = EmptyMap
    /\ dispatched = {}
    /\ electKey = [n \in Nodes |-> 0]
    /\ leaderRev = [n \in Nodes |-> 0]
    /\ leaderErr = [n \in Nodes |-> "nil"]
    /\ leaseAlive = [n \in Nodes |-> TRUE]
    /\ nPc = [n \in Nodes |-> "off"]

NextConfig ==
    \/ \E cfg \in Configs : SaveServiceConfig(cfg)
    \/ \E id \in ConfigIds : DeleteServiceConfig(id)

SpecConfig == InitConfig /\ [][NextConfig]_vars

\* C17: round trip of service configs, last writer wins: in both backends, after
\* SaveServiceConfig(cfg) has succeeded GetServiceConfig(cfg.id) returns cfg, also
\* when another config with the same id was saved before.
C17_ConfigRoundTrip ==
    [][\A cfg \in Configs :
        SaveServiceConfig(cfg) =>
            (HasServiceConfig(cfg.id) /\ GetServiceConfig(cfg.id) = cfg)']_vars

\* C18: the id is a primary key: the store holds at most one config per id (so
\* a listing yields each id at most once), and after a DeleteServiceConfig(id)
\* that succeeded GetServiceConfig(id) finds nothing.
C18_IdIsPrimaryKey ==
    [][/\ \A id \in ConfigIds : Cardinality(ConfigIndexes(id)) <= 1
       /\ \A id \in ConfigIds :
            (DeleteServiceConfig(id) /\ DeleteFound(id)) => ~HasServiceConfig(id)']_vars

\* C21: DeleteServiceConfig is idempotent in both backends: called for an id
\* that has no config (never saved, or deleted before) it succeeds without an
\* error, so that handleDeleteConfig does not answer 404, and it leaves the
\* stored configs unchanged.
C21_DeleteIdempotent ==
    [][\A id \in ConfigIds :
        (DeleteServiceConfig(id) /\ ~HasServiceConfig(id)) =>
            (DeleteFound(id) /\ adminStatus' # 404 /\ services' = services)]_vars

(***************************************************************************)
(* The memory store under concurrent calls.  The ping handlers, the admin  *)
(* handlers and the checker run in goroutines of their own and call the    *)
(* methods of the one memoryStorage; no method takes a lock.  A call has a *)
(* beginning and an end; the goroutine of GetServiceConfigs ranges over    *)
(* s.cfg.Services while other calls run.                                   *)
(***************************************************************************)
MaxMemCalls == 4

\* The zero value of config.ServiceConfig, in the unused slots of a new array.
ZeroConfig ==
    [id |-> "", token |-> "", timeout |-> 0, debounce |-> 0,
     alertNotifications |-> <<>>, recoveryNotifications |-> <<>>]

\* The methods a goroutine calls, the data each one touches and whether it
\* writes it.
MemOpsOf(a) ==
    LET MemConfigs == {ServiceConfig(id, "", 2, 0) : id \in ConfigIds}
        MemOp(name, data, write, cfg) ==
            [name |-> name, data |-> data, write |-> write, arg |-> cfg]
    IN
    IF a = "ping"
    THEN {MemOp("SetLastHeartbeat", "heartbeats", TRUE, c) : c \in MemConfigs}
         \cup {MemOp("GetAlarmActiveSince", "active", FALSE, c) : c \in MemConfigs}
         \cup {MemOp("ClearAlarm", "active", TRUE, c) : c \in MemConfigs}
    ELSE IF a = "checker"
    THEN {MemOp("GetLastHeartbeat", "heartbeats", FALSE, c) : c \in MemConfigs}
         \cup {MemOp("SetAlarmActiveSince", "active", TRUE, c) : c \in MemConfigs}
         \cup {MemOp("SetLastMessageSendTimestamp", "lastMessage", TRUE, c) : c \in MemConfigs}
    ELSE {MemOp("SaveServiceConfig", "services", TRUE, c) : c \in MemConfigs}
         \cup {MemOp("DeleteServiceConfig", "services", TRUE, c) : c \in MemConfigs}

\* Two calls in progress touch the same data and one of them writes it.
Conflict(op1, op2) == op1.data = op2.data /\ (op1.write \/ op2.write)

\* A goroutine enters a method of memoryStorage.  Nothing makes it wait for the
\* calls of the other goroutines.
MemCall(a, op) ==
    /\ ~mem.fatal
    /\ mem.busy[a] = <<>>
    /\ mem.calls < MaxMemCalls
    /\ op.name = "SaveServiceConfig" => Len(services) < MaxConfigs
    /\ mem' = [mem EXCEPT
                !.busy[a] = <<op>>,
                !.calls = mem.calls + 1,
                !.raced = [b \in MemActors |->
                    IF b = a
                    THEN \E c \in MemActors \ {a} :
                            mem.busy[c] # <<>> /\ Conflict(op, mem.busy[c][1])
                    ELSE mem.raced[b]
                         \/ (mem.busy[b] # <<>> /\ Conflict(op, mem.busy[b][1]))]]
    /\ UNCHANGED <<now, backend, adminStatus, services, storeVars, queueVars, outbound,
                   checkerVars, handlerVars, historyVars, coordVars>>

\* The array the ranging goroutine reads: the one its slice header points to.
IterArray == IF mem.itShared THEN services \o mem.spare ELSE mem.itArr

\* The effect of the call of a on the maps and on cfg.Services (mem.spare holds
\* the slots of the backing array beyond the length of the slice).
\* append of one element: in place when the array has a free slot, into a new
\* array of twice the length otherwise.
\* append(s[:idx], s[idx+1:]...): the tail moves down one slot inside the array,
\* the last slot keeps its old value.
MemEffect(a) ==
    LET op == mem.busy[a][1]
        GrowCap(len) == IF len = 0 THEN 1 ELSE 2 * len
        SpareAfterSave ==
            IF mem.spare # <<>> THEN Tail(mem.spare)
            ELSE [i \in 1..(GrowCap(Len(services)) - Len(services) - 1) |-> ZeroConfig]
        SpareAfterDelete(id) ==
            IF HasServiceConfig(id) THEN <<services[Len(services)]>> \o mem.spare
            ELSE mem.spare
    IN
    /\ heartbeats' = IF op.name = "SetLastHeartbeat"
                     THEN SetLastHeartbeat(op.arg.id, now) ELSE heartbeats
    /\ active' = IF op.name = "SetAlarmActiveSince" THEN SetAlarmActiveSince(op.arg.id, now)
                 ELSE IF op.name = "ClearAlarm" THEN ClearAlarm(op.arg.id)
                 ELSE active
    /\ lastMessage' = IF op.name = "SetLastMessageSendTimestamp"
                      THEN SetLastMessageSendTimestamp(op.arg.id, now) ELSE lastMessage
    /\ services' = IF op.name = "SaveServiceConfig" THEN SavedConfigs(op.arg)
                   ELSE IF op.name = "DeleteServiceConfig" THEN DeletedConfigs(op.arg.id)
                   ELSE services
    /\ mem' = [mem EXCEPT
                !.busy[a] = <<>>,
                !.raced[a] = FALSE,
                !.snaps = IF mem.list \in {"spawned", "ranging"}
                          THEN mem.snaps \cup {services'} ELSE mem.snaps,
                !.spare = IF op.name = "SaveServiceConfig" THEN SpareAfterSave
                          ELSE IF op.name = "DeleteServiceConfig"
                          THEN SpareAfterDelete(op.arg.id)
                          ELSE mem.spare,
                !.itShared = mem.itShared
                             /\ ~(op.name = "SaveServiceConfig" /\ mem.spare = <<>>),
                !.itArr = IF mem.itShared /\ op.name = "SaveServiceConfig"
                             /\ mem.spare = <<>>
                          THEN services ELSE mem.itArr]

\* A call returns.  A map access that ran while another goroutine wrote the map
\* is a data race: the call takes effect, or its write is lost, or the runtime
\* stops the process ("fatal error: concurrent map writes").
MemReturn(a) ==
    /\ ~mem.fatal
    /\ mem.busy[a] # <<>>
    /\ \/ MemEffect(a)
       \/ /\ mem.raced[a]
          /\ mem.busy[a][1].data # "services"
          /\ \E dies \in BOOLEAN :
                mem' = [mem EXCEPT !.busy[a] = <<>>, !.raced[a] = FALSE, !.fatal = dies]
          /\ UNCHANGED <<services, storeVars>>
    /\ UNCHANGED <<now, backend, adminStatus, queueVars, outbound,
                   checkerVars, handlerVars, historyVars, coordVars>>

\* GetServiceConfigs: the channels are made and the goroutine is started; the
\* call returns.
ListCall ==
    /\ ~mem.fatal
    /\ mem.list = "none"
    /\ mem' = [mem EXCEPT !.list = "spawned", !.snaps = {services}, !.out = <<>>]
    /\ UNCHANGED <<now, backend, adminStatus, services, storeVars, queueVars, outbound,
                   checkerVars, handlerVars, historyVars, coordVars>>

\* for _, val := range s.cfg.Services: the goroutine evaluates the slice once,
\* when it reaches the loop; it keeps the pointer to the array and the length.
ListRange ==
    /\ ~mem.fatal
    /\ mem.list = "spawned"
    /\ mem' = [mem EXCEPT !.list = "ranging", !.itShared = TRUE, !.itArr = <<>>,
                          !.itLen = Len(services), !.itIdx = 1]
    /\ UNCHANGED <<now, backend, adminStatus, services, storeVars, queueVars, outbound,
                   checkerVars, handlerVars, historyVars, coordVars>>

\* configChannel <- val: the element at the index is read from the array and
\* sent (the channel buffers 32 configs).
ListYield ==
    /\ ~mem.fatal
    /\ mem.list = "ranging"
    /\ mem.itIdx <= mem.itLen
    /\ mem' = [mem EXCEPT !.out = Append(mem.out, IterArray[mem.itIdx]),
                          !.itIdx = mem.itIdx + 1]
    /\ UNCHANGED <<now, backend, adminStatus, services, storeVars, queueVars, outbound,
                   checkerVars, handlerVars, historyVars, coordVars>>

\* The loop is through: the deferred close(configChannel) ends the sequence.
ListClose ==
    /\ ~mem.fatal
    /\ mem.list = "ranging"
    /\ mem.itIdx > mem.itLen
    /\ mem' = [mem EXCEPT !.list = "closed", !.itArr = <<>>, !.itShared = TRUE]
    /\ UNCHANGED <<now, backend, adminStatus, services, storeVars, queueVars, outbound,
                   checkerVars, handlerVars, historyVars, coordVars>>

InitMemory ==
    /\ InitConfig
    /\ backend = "memory"

NextMemory ==
    \/ \E a \in MemActors : \E op \in MemOpsOf(a) : MemCall(a, op)
    \/ \E a \in MemActors : MemReturn(a)
    \/ ListCall
    \/ ListRange
    \/ ListYield
    \/ ListClose

SpecMemory == InitMemory /\ [][NextMemory]_vars

\* C33: every operation of the memory store runs under one mutex.  At no moment
\* are two goroutines inside calls that touch the same map or the config list
\* with one of them writing it, no write of the config list runs while the
\* listing goroutine ranges over it, and the process never dies of a concurrent
\* map access.
C33_MemoryStoreMutex ==
    /\ \A a, b \in MemActors :
        (a # b /\ mem.busy[a] # <<>> /\ mem.busy[b] # <<>>) =>
            ~Conflict(mem.busy[a][1], mem.busy[b][1])
    /\ \A a \in MemActors :
        (mem.list = "ranging" /\ mem.busy[a] # <<>>) => mem.busy[a][1].data # "services"
    /\ ~mem.fatal

\* C34: the listing of the memory store iterates a snapshot: when the sequence
\* is closed it has yielded exactly the configs that were stored at one moment,
\* each once and in their order, whatever SaveServiceConfig and
\* DeleteServiceConfig calls ran in between.  The moment is the call of
\* GetServiceConfigs; the formula accepts any moment from the call to the close
\* of the sequence (mem.snaps holds every value the list had in between).
C34_ListingIsSnapshot ==
    mem.list = "closed" => mem.out \in mem.snaps

====
